---- MODULE Spec2Model ----
(***************************************************************************)
(* State-machine model of src/qr_inventory/app/qr_inventory.py: the worker *)
(* loop (capture, detect, zone history / confirmation, persist, render,    *)
(* publish), the inventory file, and the HTTP reader threads that copy the *)
(* published snapshot under STATE_LOCK.                                    *)
(***************************************************************************)
EXTENDS Integers, Sequences, FiniteSets, TLC

(* ------------------------------------------------------------------ *)
(* Bounds of the model                                                 *)
(* ------------------------------------------------------------------ *)
MaxCycles == 4        \* cycles of the main loop explored, over all process runs
MaxRestarts == 1      \* process restarts explored
MaxRequired == 3      \* largest configured required_consistency
NumReaders == 2       \* concurrent HTTP request threads
MaxAttempts == 3      \* attempts of the detection passes explored on one frame
MaxPolls == 3         \* iterations of the updater of the overlay server explored
MaxRequests == 2      \* requests to the overlay server explored

NONE == "None"        \* Python's None
FREE == 0             \* STATE_LOCK held by no thread
WORKER == -1          \* STATE_LOCK held by the main thread; a request thread r holds it as r

Payloads == {"p1", "p2"}
Readers == 1..NumReaders
RequiredValues == 0..MaxRequired

\* Add-on option "zones": name -> box, in declaration (dict insertion) order.
\* "A" and "B" overlap on the column x = 2.
zones == << <<"A", <<0, 0, 2, 2>> >>, <<"B", <<2, 0, 4, 2>> >> >>

ZoneNames == {zones[k][1] : k \in 1..Len(zones)}

\* Centroids of decoded tags: inside A and B (overlap), inside B only, in no zone.
Points == {<<2, 1>>, <<3, 1>>, <<5, 5>>}

(* ------------------------------------------------------------------ *)
(* Pure helpers                                                        *)
(* ------------------------------------------------------------------ *)

\* dict.get(k): the value, or None when the key is absent
Get(m, k) == IF k \in DOMAIN m THEN m[k] ELSE NONE

\* dict[k] = v
Put(m, k, v) == [x \in (DOMAIN m) \cup {k} |-> IF x = k THEN v ELSE m[x]]

EmptyMap == [x \in {} |-> NONE]

\* a coordinate of a box that is no number: a JSON string or null
NotANumber == -1

is_number(x) == x # NotANumber

\* a call that did not return: TypeError left the function
RAISED == "TypeError"

\* "x1 <= cx <= x2 and y1 <= cy <= y2", evaluated from left to right and stopping at the
\* first comparison that is false; comparing a string or None with a number raises TypeError
box_contains(box, cx, cy) ==
    IF ~is_number(box[1]) THEN "raise"
    ELSE IF ~(box[1] <= cx) THEN "no"
    ELSE IF ~is_number(box[3]) THEN "raise"
    ELSE IF ~(cx <= box[3]) THEN "no"
    ELSE IF ~is_number(box[2]) THEN "raise"
    ELSE IF ~(box[2] <= cy) THEN "no"
    ELSE IF ~is_number(box[4]) THEN "raise"
    ELSE IF ~(cy <= box[4]) THEN "no"
    ELSE "yes"

\* the loop of centroid_to_zone from entry k on: only the unpacking "x1, y1, x2, y2 = box"
\* is inside the try block, the comparisons are not
RECURSIVE first_match(_, _, _, _)
first_match(cx, cy, zones_dict, k) ==
    IF k > Len(zones_dict) THEN NONE
    ELSE LET name == zones_dict[k][1]
             box == zones_dict[k][2]
         IN  IF Len(box) # 4 THEN first_match(cx, cy, zones_dict, k + 1)
             ELSE CASE box_contains(box, cx, cy) = "yes" -> name
                    [] box_contains(box, cx, cy) = "raise" -> RAISED
                    [] OTHER -> first_match(cx, cy, zones_dict, k + 1)

\* mutant: the last entry that contains the point wins
centroid_to_zone_last_match(cx, cy, zones_dict) ==
    LET K == {k \in 1..Len(zones_dict) :
                 /\ Len(zones_dict[k][2]) = 4
                 /\ box_contains(zones_dict[k][2], cx, cy) = "yes"}
    IN  IF K = {} THEN NONE ELSE zones_dict[CHOOSE k \in K : \A j \in K : j <= k][1]

centroid_to_zone(cx, cy, zones_dict) == first_match(cx, cy, zones_dict, 1)

\* mutant: the configured value is used as it is, so 0 gives a deque that holds nothing
history_maxlen_of_uncoerced(req) == req

\* history_maxlen = required if required and required > 0 else 1
history_maxlen_of(req) == IF req > 0 THEN req ELSE 1

\* mutant: a deque that never evicts
deque_append_unbounded(dq, x, n) == Append(dq, x)

\* mutant: a full deque makes room at the wrong end, dropping its newest entry
deque_append_evicts_newest(dq, x, n) ==
    IF Len(dq) >= n THEN SubSeq(dq, 1, n - 1) \o <<x>> ELSE Append(dq, x)

\* deque(maxlen=n).append(x)
deque_append(dq, x, n) ==
    LET s == Append(dq, x)
    IN  IF Len(s) > n THEN SubSeq(s, Len(s) - n + 1, Len(s)) ELSE s

\* mutant: an iteration without frame starts every history afresh
history_after_skip_reset(h) == [p \in DOMAIN h |-> <<>>]

\* the dict history after an iteration that is left by "continue" before detection: no
\* statement on that path refers to it
history_after_skip(h) == h

\* set(history[info])
SetOf(s) == {s[k] : k \in 1..Len(s)}

\* mutant: the length test of the confirmation is dropped
confirmed_zone_of_any_length(h, n) ==
    IF Cardinality(SetOf(h)) = 1 /\ h[Len(h)] # NONE THEN h[Len(h)] ELSE NONE

\* len(history[info]) >= history_maxlen and len(set(history[info])) == 1, then
\* confirmed_zone = history[info][-1]; the zone handed to persist_mapping, or None
confirmed_zone_of(h, n) ==
    IF Len(h) >= n /\ Cardinality(SetOf(h)) = 1 /\ h[Len(h)] # NONE
    THEN h[Len(h)]
    ELSE NONE

(* ------------------------------------------------------------------ *)
(* Inventory file                                                      *)
(* ------------------------------------------------------------------ *)
\* /data/inventory.json: absent, bytes that are not valid JSON, or a JSON object
AbsentFile == [kind |-> "absent", val |-> EmptyMap]
CorruptFile == [kind |-> "corrupt", val |-> EmptyMap]

\* a file that exists and that open(inv_path, 'r') refuses to open
UnreadableFile == [kind |-> "unreadable", val |-> EmptyMap]

\* valid JSON whose top-level value is no object: a list, a string, a number or null
NotAMappingFile == [kind |-> "json_other", val |-> EmptyMap]

\* json.dump(confirmed, f): the whole dict
json_dump(m) == [kind |-> "json", val |-> m]

\* startup: confirmed = {}; if the file exists, json.load, on any exception {}
load_inventory(file) == IF file.kind = "json" THEN file.val ELSE EmptyMap

\* startup: the Python type of what "confirmed" is bound to.  json.load succeeds on any
\* valid JSON, so a top-level list, string, number or null is bound as it is.
load_type(file) == IF file.kind = "json_other" THEN "other" ELSE "dict"

\* persist_mapping, l.333: confirmed.get(payload) raises AttributeError on anything but a dict
get_raises(conf_type) == conf_type # "dict"

WriteOutcomes == {"ok", "open_fail", "dump_fail"}

\* mutant: the early return of persist_mapping is dropped
persist_writes_always(conf, payload, zone) == TRUE

\* persist_mapping: prev = confirmed.get(payload); if prev == zone: return
persist_writes(conf, payload, zone) == Get(conf, payload) # zone

\* persist_mapping: the in-memory map after the call
persist_confirmed(conf, payload, zone) ==
    IF persist_writes(conf, payload, zone) THEN Put(conf, payload, zone) ELSE conf

\* mutant: the map is dumped before the new mapping is stored in it
persist_file_stale(conf, file, payload, zone, outcome) ==
    IF persist_writes(conf, payload, zone)
    THEN CASE outcome = "ok" -> json_dump(conf)
           [] outcome = "open_fail" -> file
           [] outcome = "dump_fail" -> CorruptFile
    ELSE file

\* mutant: only the changed mapping is dumped
persist_file_changed_only(conf, file, payload, zone, outcome) ==
    IF persist_writes(conf, payload, zone)
    THEN CASE outcome = "ok" -> json_dump(Put(EmptyMap, payload, zone))
           [] outcome = "open_fail" -> file
           [] outcome = "dump_fail" -> CorruptFile
    ELSE file

\* persist_mapping: the file after the call.  open(inv_path, 'w') truncates, so a
\* failure after the open leaves a file that is not valid JSON.
persist_file(conf, file, payload, zone, outcome) ==
    IF persist_writes(conf, payload, zone)
    THEN CASE outcome = "ok" -> json_dump(Put(conf, payload, zone))
           [] outcome = "open_fail" -> file
           [] outcome = "dump_fail" -> CorruptFile
    ELSE file

(* ------------------------------------------------------------------ *)
(* Images and the published snapshot                                   *)
(* ------------------------------------------------------------------ *)
FrameW == 64
FrameH == 64

NoImage == [kind |-> "None", id |-> 0, w |-> 0, h |-> 0, zones |-> <<>>, marks |-> <<>>]

\* the image decoded from ffmpeg's output at time c
captured_frame(c) ==
    [kind |-> "image", id |-> c, w |-> FrameW, h |-> FrameH, zones |-> <<>>, marks |-> <<>>]

\* get_frame_ffmpeg: None on a timeout, a non-zero exit, empty output or an undecodable image
get_frame_ffmpeg(captured, c) == IF captured = "frame" THEN captured_frame(c) ELSE NoImage

\* mutant: the test for a missing frame is dropped
frame_is_none_never(img) == FALSE

\* main loop: "if frame is None"
frame_is_none(img) == img = NoImage

\* "x1, y1, x2, y2 = map(int, box)" succeeds: four values, each one that int() accepts
unpacks_to_ints(box) == Len(box) = 4 /\ \A i \in 1..4 : is_number(box[i])

\* max(lo, min(x, hi))
clamp(x, lo, hi) == IF x > hi THEN (IF hi < lo THEN lo ELSE hi) ELSE (IF x < lo THEN lo ELSE x)

\* draw_overlay: the box of a zone entry clipped to the image
clipped_box(box, w, h) ==
    <<clamp(box[1], 0, w - 1), clamp(box[2], 0, h - 1),
      clamp(box[3], 0, w - 1), clamp(box[4], 0, h - 1)>>

\* draw_overlay: the entry is drawn; "continue" on a failing unpack and on x2 <= x1 or y2 <= y1
zone_is_drawn(entry, w, h) ==
    /\ unpacks_to_ints(entry[2])
    /\ clipped_box(entry[2], w, h)[3] > clipped_box(entry[2], w, h)[1]
    /\ clipped_box(entry[2], w, h)[4] > clipped_box(entry[2], w, h)[2]

\* draw_overlay: the rectangles and labels drawn for the zones, in the order of the dict
overlay_zones(zones_dict, w, h) ==
    LET drawn == SelectSeq(zones_dict, LAMBDA entry : zone_is_drawn(entry, w, h))
    IN  [k \in 1..Len(drawn) |-> <<drawn[k][1], clipped_box(drawn[k][2], w, h)>>]

\* draw_overlay: out = frame.copy(), then zones and detections are drawn on out
draw_overlay(img, dets, zones_dict) ==
    [img EXCEPT !.zones = overlay_zones(zones_dict, img.w, img.h), !.marks = dets]

\* mutant: draw_overlay draws on the array it was given (out = frame)
frame_after_draw_in_place(img, overlay) == overlay

\* the array "frame" of the caller once draw_overlay has returned: out = frame.copy() is
\* an array of its own, so nothing was drawn on frame
frame_after_draw(img, overlay) == img

\* _encode_png: buf.tobytes() if ok else None
encode_png(img, ok) == IF ok THEN [img EXCEPT !.kind = "png"] ELSE NoImage

\* len(png) if png else None; 0 stands for None (no PNG has 0 bytes)
png_bytes(png) == IF png.kind = "png" THEN 1 + Len(png.marks) ELSE 0

frame_info(img, frame_png, overlay_png, dets) ==
    << <<"captured_w", img.w>>, <<"captured_h", img.h>>,
       <<"frame_png_bytes", png_bytes(frame_png)>>,
       <<"overlay_png_bytes", png_bytes(overlay_png)>>,
       <<"detections", Len(dets)>> >>

InitSTATE ==
    [ts |-> 0, frame_png |-> NoImage, overlay_png |-> NoImage,
     detections |-> <<>>, last_frame_info |-> <<>>]

\* a snapshot with a raw and an annotated image
HasImages(snapshot) == snapshot.frame_png # NoImage /\ snapshot.overlay_png # NoImage

\* order of the five assignments inside "with STATE_LOCK" in the main loop
PublishOrder == <<"ts", "frame_png", "overlay_png", "detections", "last_frame_info">>

\* order of the five reads inside "with STATE_LOCK" in do_GET
CopyOrder == <<"overlay_png", "frame_png", "detections", "ts", "last_frame_info">>

(* ------------------------------------------------------------------ *)
(* detect_qr_robust: build output                                      *)
(* ------------------------------------------------------------------ *)
\* one entry of the dict "best": a decoded payload and the centroid of its quad.
\* Tag p1 is seen at every point, tag p2 at the point inside B only.
BestEntries ==
    {e \in [payload : Payloads, centroid : Points] : e.payload = "p1" \/ e.centroid = <<3, 1>>}

\* best.items(): entries in insertion order, one per payload
BestDictsOver(entries) ==
    {<<>>} \cup {<<e>> : e \in entries}
           \cup {<<x[1], x[2]>> : x \in {y \in entries \X entries : y[1].payload # y[2].payload}}

BestDicts == BestDictsOver(BestEntries)

\* the dicts in which p1 was decoded before p2
BestDictsP1First == {b \in BestDicts : Len(b) = 2 => b[1].payload = "p1"}

\* _warp_patch: "if edge <= 5: return None, 0, edge"
MinEdge == 5

\* a quad of four points: int(mean) of its points, _quad_area, _max_edge_len of the points
\* clipped to the frame, and the number of distinct points
Quad(c, area, edge, corners) == [centroid |-> c, area |-> area, edge |-> edge, corners |-> corners]

\* a well-formed quad around the point c
quad_at(c) == Quad(c, 30, 6, 4)

\* score = None
NoScore == -1

\* a (payload, pts) pair a pass has read, with the score computed for it: a percentage
\* standing for _certainty_score in [0, 1], or None when _warp_patch returned no warp
Read(payload, quad, score) == [payload |-> payload, quad |-> quad, score |-> score]

\* the score of a warp of middling size, sharpness and contrast
WarpScore == 50

\* an entry of BestEntries as the (payload, pts) pair a pass has read
read_of(e) == Read(e.payload, quad_at(e.centroid), NoScore)

\* mutant: the later read of a payload always replaces the earlier one
add_best_last_wins(best, read) ==
    LET K == {k \in 1..Len(best) : best[k].payload = read.payload}
    IN  IF K = {} THEN Append(best, read) ELSE [best EXCEPT ![CHOOSE k \in K : TRUE] = read]

\* mutant: every read becomes an entry of its own
add_best_keeps_all(best, read) == Append(best, read)

\* mutant: a read without score is not recorded, and a higher score replaces an entry
add_best_by_score(best, read) ==
    LET K == {k \in 1..Len(best) : best[k].payload = read.payload}
    IN  IF read.score = NoScore THEN best
        ELSE IF K = {} THEN Append(best, read)
        ELSE LET k == CHOOSE j \in K : TRUE
             IN  IF read.score > best[k].score THEN [best EXCEPT ![k] = read] ELSE best

\* add_best(payload, pts): prev = best.get(payload); if prev is None or area > prev["area"]:
\* best[payload] = {...}.  A key that is assigned again keeps its place in the dict.
add_best(best, read) ==
    LET K == {k \in 1..Len(best) : best[k].payload = read.payload}
    IN  IF K = {} THEN Append(best, read)
        ELSE LET k == CHOOSE j \in K : TRUE
             IN  IF read.quad.area > best[k].quad.area THEN [best EXCEPT ![k] = read] ELSE best

\* add_best for each read of a sequence, in order
RECURSIVE add_all(_, _, _)
add_all(best, reads, k) ==
    IF k > Len(reads) THEN best ELSE add_all(add_best(best, reads[k]), reads, k + 1)

\* options zone_fallback and roi_padding_px (in pixels of the FrameW x FrameH frame)
zone_fallback == TRUE
roi_padding_px == 1

\* pass 2: x1p, y1p, x2p, y2p of a zone entry
roi_box(box, w, h, pad) ==
    <<IF box[1] - pad < 0 THEN 0 ELSE box[1] - pad,
      IF box[2] - pad < 0 THEN 0 ELSE box[2] - pad,
      IF box[3] + pad > w - 1 THEN w - 1 ELSE box[3] + pad,
      IF box[4] + pad > h - 1 THEN h - 1 ELSE box[4] + pad>>

\* pass 2: the region of the entry is scanned; "continue" on a failing
\* "x1, y1, x2, y2 = map(int, box)" and on x2p <= x1p or y2p <= y1p
zone_is_scanned(entry, w, h, pad) ==
    /\ unpacks_to_ints(entry[2])
    /\ roi_box(entry[2], w, h, pad)[3] > roi_box(entry[2], w, h, pad)[1]
    /\ roi_box(entry[2], w, h, pad)[4] > roi_box(entry[2], w, h, pad)[2]

\* One attempt of a pass and what its cv2 calls return.
\*   pass 1: one variant of _preprocess_gray_variants(frame_gray), decoded by
\*           _detect_and_decode_multi; reads are its (payload, pts) pairs
\*   pass 2: one scale of the region of zone entry "zone"; reads likewise
\*   pass 3: one item of cand_items; reads holds the candidate quad with the payload
\*           _decode_warp_variants returns for its warp ("" when nothing decodes)
\* fail: "none"; "decode": the detector call raises (caught where it is made);
\*       "warp": cv2.getPerspectiveTransform / warpPerspective raises (caught in
\*       _warp_patch); "preprocess": a cv2 call that builds the image raises
\*       (cvtColor, CLAHE, GaussianBlur, adaptiveThreshold, threshold, resize), which
\*       no try block of detect_qr_robust encloses
\* cands: the quads of the attempt that were located but not decoded (pass 1 and 2:
\*       "candidates" of _detect_and_decode_multi and the quads of _detect_points)
Attempt(pass, zone, fail, reads) ==
    [pass |-> pass, zone |-> zone, fail |-> fail, reads |-> reads, cands |-> <<>>]

\* an attempt of pass 1 or 2 that decodes nothing and locates the quads "cands"
Harvest(pass, zone, cands) == [Attempt(pass, zone, "none", <<>>) EXCEPT !.cands = cands]

\* the attempt is made: pass 2 skips entries without region, pass 3 skips a candidate
\* whose warp is None
attempt_runs(a, zones_dict, w, h) ==
    CASE a.pass = 1 -> TRUE
      [] a.pass = 2 -> /\ zone_fallback
                       /\ a.zone \in 1..Len(zones_dict)
                       /\ zone_is_scanned(zones_dict[a.zone], w, h, roi_padding_px)
      [] a.pass = 3 -> a.reads[1].quad.edge > MinEdge /\ a.fail # "warp"

\* the (payload, pts) pairs the attempt hands to add_best
reads_added(a) ==
    IF a.fail # "none" THEN <<>> ELSE SelectSeq(a.reads, LAMBDA r : r.payload # "")

\* the three passes from attempt k on: the dict best at the end, or raised
RECURSIVE run_passes(_, _, _, _, _, _)
run_passes(scan, k, best, zones_dict, w, h) ==
    IF k > Len(scan) THEN [raised |-> FALSE, best |-> best]
    ELSE IF ~attempt_runs(scan[k], zones_dict, w, h)
         THEN run_passes(scan, k + 1, best, zones_dict, w, h)
         ELSE IF scan[k].fail = "preprocess"
              THEN [raised |-> TRUE, best |-> best]
              ELSE run_passes(scan, k + 1, add_all(best, reads_added(scan[k]), 1),
                              zones_dict, w, h)

\* add_candidate: key = (int(cx // 20), int(cy // 20)), the bucket of the centroid
BucketPx == 20
bucket_of(q) == <<q.centroid[1] \div BucketPx, q.centroid[2] \div BucketPx>>

\* add_candidate(pts): prev = cand.get(key); if prev is None or area > prev["area"]:
\* cand[key] = {...}.  cand.values() in insertion order; a key assigned again keeps its place.
add_candidate(cand, q) ==
    LET K == {k \in 1..Len(cand) : bucket_of(cand[k]) = bucket_of(q)}
    IN  IF K = {} THEN Append(cand, q)
        ELSE LET k == CHOOSE j \in K : TRUE
             IN  IF q.area > cand[k].area THEN [cand EXCEPT ![k] = q] ELSE cand

\* add_candidate for each quad of a sequence, in order
RECURSIVE add_candidates(_, _, _)
add_candidates(cand, qs, k) ==
    IF k > Len(qs) THEN cand ELSE add_candidates(add_candidate(cand, qs[k]), qs, k + 1)

\* the dict cand after passes 1 and 2, from attempt k on
RECURSIVE cand_of(_, _, _, _, _, _)
cand_of(scan, k, cand, zones_dict, w, h) ==
    IF k > Len(scan) THEN cand
    ELSE IF scan[k].pass \in {1, 2} /\ scan[k].fail = "none"
            /\ attempt_runs(scan[k], zones_dict, w, h)
         THEN cand_of(scan, k + 1, add_candidates(cand, scan[k].cands, 1), zones_dict, w, h)
         ELSE cand_of(scan, k + 1, cand, zones_dict, w, h)

\* sorted(..., key=area, reverse=True): a stable sort, equal areas keep their order
insert_by_area(sorted, q) ==
    LET n == Cardinality({i \in 1..Len(sorted) : sorted[i].area >= q.area})
    IN  SubSeq(sorted, 1, n) \o <<q>> \o SubSeq(sorted, n + 1, Len(sorted))

RECURSIVE sorted_by_area(_, _, _)
sorted_by_area(qs, k, sorted) ==
    IF k > Len(qs) THEN sorted ELSE sorted_by_area(qs, k + 1, insert_by_area(sorted, qs[k]))

\* s[:n] of Python: the first n items, and for a negative n all but the last -n items
py_slice_to(s, n) ==
    IF n >= 0 THEN SubSeq(s, 1, IF n < Len(s) THEN n ELSE Len(s))
    ELSE SubSeq(s, 1, IF Len(s) + n > 0 THEN Len(s) + n ELSE 0)

\* cand_items = sorted(cand.values(), key=lambda v: v["area"], reverse=True)[:max_candidates]
cand_items(cand, n) == py_slice_to(sorted_by_area(cand, 1, <<>>), n)

\* pass 3: one attempt per item of cand_items, in order; decode[k] is the payload that
\* _decode_warp_variants returns for the warp of item k
pass3_attempts(items, decode) ==
    [k \in 1..Len(items) |-> Attempt(3, 0, "none", <<Read(decode[k], items[k], WarpScore)>>)]

\* the scan of a frame on which passes 1 and 2 make the attempts "harvest"
scan_of_frame(harvest, decode, n, zones_dict, w, h) ==
    harvest \o pass3_attempts(cand_items(cand_of(harvest, 1, <<>>, zones_dict, w, h), n), decode)

\* "Build output" does not finish: centroid_to_zone raises for one of the entries
output_raises(best, zones_dict) ==
    \E k \in 1..Len(best) :
       centroid_to_zone(best[k].quad.centroid[1], best[k].quad.centroid[2], zones_dict) = RAISED

build_output(best, zones_dict) ==
    [k \in 1..Len(best) |->
        [payload |-> best[k].payload,
         points |-> best[k].quad,
         score |-> best[k].score,
         centroid |-> best[k].quad.centroid,
         zone |-> centroid_to_zone(best[k].quad.centroid[1], best[k].quad.centroid[2],
                                   zones_dict)]]

\* detect_qr_robust(frame_bgr, zones_dict, cycle_idx) on a frame of w x h pixels
detect_qr_robust(scan, zones_dict, w, h) ==
    LET p == run_passes(scan, 1, <<>>, zones_dict, w, h)
    IN  IF p.raised \/ output_raises(p.best, zones_dict)
        THEN [raised |-> TRUE, detections |-> <<>>]
        ELSE [raised |-> FALSE, detections |-> build_output(p.best, zones_dict)]

\* the scan in which the first variant of pass 1 reads the entries of "best" and nothing
\* else is read, or in which the first cv2 call raises
ScanOf(best, raised) ==
    IF raised THEN <<Attempt(1, 0, "preprocess", <<>>)>>
    ELSE <<Attempt(1, 0, "none", [k \in 1..Len(best) |-> read_of(best[k])])>>

NoScan == <<>>

(* ------------------------------------------------------------------ *)
(* State                                                               *)
(* ------------------------------------------------------------------ *)
VARIABLES
    required,       \* option required_consistency
    camera_mode,    \* option camera_mode
    stream_url,     \* option rtsp_url
    interval,       \* option interval_seconds
    zones_opt,      \* option zones: the dict "zones" of the running process
    max_candidates, \* option max_candidates
    inv_file,       \* /data/inventory.json
    history,        \* payload -> deque of the last zones observed
    confirmed,      \* payload -> confirmed zone
    confirmed_type, \* "dict", or "other" when json.load returned something else
    cycle_idx,      \* main loop counter
    now,            \* wall clock, int(time.time()); one tick per loop iteration
    pc,             \* position of the main thread in the loop body
    frame,          \* local: captured frame
    detections,     \* local: output of detect_qr_robust
    det_i,          \* local: index of the for loop over detections
    out,            \* locals frame_png, overlay_png, fi
    STATE_dict,     \* the dict STATE: the published snapshot
    STATE_LOCK,     \* holder of the lock
    rpc,            \* per request thread: position in do_GET
    rcopy,          \* per request thread: locals overlay_png, frame_png, det, ts, fi
    restarts,       \* number of process restarts so far
    STATE_cycle,    \* history variable: cycle that assigned each STATE_dict field
    rcopy_cycle,    \* history variable: cycle of each value a request copied
    obs,            \* history variable: every zone observed per payload since startup
    event,          \* history variable: what the last step of the main thread did
    prev_call,      \* history variable: the persist_mapping call before the last one
    last_call,      \* history variable: the last persist_mapping call
    unflushed,      \* history variable: latest mapping per payload whose write failed
                    \* since the last good write
    imaged,         \* history variable: a publish with both PNGs has completed
    fails,          \* history variable: consecutive failed acquisitions
    pre_outage,     \* history variable: STATE_dict when the current outage began
    seen,           \* history variable: the scan of the detect_qr_robust call of this cycle
    detected_in,    \* history variable: per payload, the number of cycles since startup
                    \* whose detections held it
    overlay_cfg,    \* qr-tag_overlay/server.py: option overlay
    state,          \* qr-tag_overlay/server.py: the State object
    updater_pc,     \* qr-tag_overlay/server.py: position of the updater task
    clock,          \* qr-tag_overlay/server.py: time.time(), one tick per iteration
    iteration,      \* history variable: what the last updater iteration met
    reply           \* history variable: the last response of a handler

program_vars ==
    <<required, camera_mode, stream_url, interval, zones_opt, max_candidates, inv_file, history, confirmed, confirmed_type,
      cycle_idx, pc,
      frame, detections, det_i, out, STATE_dict, STATE_LOCK, rpc, rcopy, now>>
history_vars ==
    <<restarts, STATE_cycle, rcopy_cycle, obs, event, prev_call, last_call, unflushed,
      imaged, fails, pre_outage, seen, detected_in>>
overlay_vars == <<overlay_cfg, state, updater_pc, clock, iteration, reply>>
vars == <<program_vars, history_vars, overlay_vars>>

worker_locals == <<frame, detections, det_i, out>>
reader_vars == <<rpc, rcopy, rcopy_cycle>>
config_vars == <<required, camera_mode, stream_url, interval, zones_opt, max_candidates>>
inventory_vars == <<history, confirmed, confirmed_type, inv_file>>
persist_log == <<prev_call, last_call, unflushed>>

history_maxlen == history_maxlen_of(required)

NoOut == [frame_png |-> NoImage, overlay_png |-> NoImage, fi |-> <<>>]
NoEvent == [op |-> "none", payload |-> NONE, zone |-> NONE, prev |-> NONE, write |-> "none"]
NoCall == NoEvent
NoCopy == InitSTATE
NoResp == [code |-> 0, ctype |-> "", kind |-> "none", png |-> NoImage, ts |-> 0,
           detections |-> <<>>, frame_info |-> <<>>]
ZeroCycle == [f \in {"ts", "frame_png", "overlay_png", "detections", "last_frame_info"} |-> 0]

\* module-level state of a freshly started process reading the file "file"
Startup(file) ==
    /\ history = [p \in Payloads |-> <<>>]
    /\ confirmed = load_inventory(file)
    /\ confirmed_type = load_type(file)
    /\ cycle_idx = 0
    /\ pc = "capture"
    /\ frame = NoImage
    /\ detections = <<>>
    /\ det_i = 0
    /\ out = NoOut
    /\ STATE_dict = InitSTATE
    /\ STATE_LOCK = FREE
    /\ rpc = [r \in Readers |-> "idle"]
    /\ rcopy = [r \in Readers |-> NoCopy]

InitialFiles ==
    {AbsentFile, UnreadableFile, CorruptFile, NotAMappingFile,
     json_dump(EmptyMap), json_dump(Put(EmptyMap, "p1", "A"))}

\* the state after the module-level code of qr_inventory.py has run
InitInventory(reqs, modes, urls, intervals, zone_sets, files, caps) ==
    /\ required \in reqs
    /\ camera_mode \in modes
    /\ stream_url \in urls
    /\ interval \in intervals
    /\ zones_opt \in zone_sets
    /\ max_candidates \in caps
    /\ inv_file \in files
    /\ Startup(inv_file)
    /\ now = 0
    /\ restarts = 0
    /\ STATE_cycle = ZeroCycle
    /\ rcopy_cycle = [r \in Readers |-> ZeroCycle]
    /\ obs = [p \in Payloads |-> <<>>]
    /\ event = NoEvent
    /\ prev_call = NoCall
    /\ last_call = NoCall
    /\ unflushed = {}
    /\ imaged = FALSE
    /\ fails = 0
    /\ pre_outage = InitSTATE
    /\ seen = NoScan
    /\ detected_in = [p \in Payloads |-> 0]

(* ------------------------------------------------------------------ *)
(* qr-tag_overlay/app/server.py: values                                *)
(* ------------------------------------------------------------------ *)
\* bytes: b"", bytes that are no image, or a JPEG showing the QR codes "codes" and
\* carrying the text "label" in its box
EmptyBytes == [kind |-> "empty", codes |-> <<>>, label |-> <<>>]
Garbage == [kind |-> "garbage", codes |-> <<>>, label |-> <<>>]
Jpeg(codes, label) == [kind |-> "jpeg", codes |-> codes, label |-> label]

\* a str is held as the sequence of the items that " | ".join put together; "" is the
\* join of one empty item
EmptyStr == <<"">>
Dash == <<"-">>

\* overlay options: the defaults, and a font_size that int() refuses
DefaultOverlay == [font_size |-> 28, padding |-> 10]
OverlayCfgs == {DefaultOverlay, [font_size |-> NotANumber, padding |-> 10]}

NoIteration == [fetch |-> "none", decoded |-> "none", text |-> EmptyStr, annotated |-> "none"]
NoReply == [seq |-> 0, handler |-> "none", status |-> 0, body |-> EmptyBytes,
            last_text |-> EmptyStr, last_seen_ts |-> 0]

\* State.__init__, and the options main() hands to the updater
InitState(cfgs) ==
    /\ overlay_cfg \in cfgs
    /\ state = [last_text |-> EmptyStr, last_seen_ts |-> 0, last_annotated_jpeg |-> EmptyBytes,
                last_raw_jpeg |-> EmptyBytes, source |-> ""]
    /\ updater_pc = "start"
    /\ clock = 0
    /\ iteration = NoIteration
    /\ reply = NoReply

\* the state after the module-level code has run, for each choice of the options
InitFull(reqs, modes, urls, intervals, zone_sets, files, caps) ==
    /\ InitInventory(reqs, modes, urls, intervals, zone_sets, files, caps)
    /\ InitState({DefaultOverlay})

\* the default max_candidates
DefaultMaxCandidates == 160

\* a start with the default candidate cap
InitConf(reqs, modes, urls, intervals, zone_sets, files) ==
    InitFull(reqs, modes, urls, intervals, zone_sets, files, {DefaultMaxCandidates})

\* the default interval_seconds
DefaultInterval == 60

\* a start with the two well-formed zones A and B
InitOpts(reqs, modes, urls, intervals, files) ==
    InitConf(reqs, modes, urls, intervals, {zones}, files)

\* a start with a sleep interval that time.sleep accepts
InitWith(reqs, modes, urls, files) == InitOpts(reqs, modes, urls, {DefaultInterval}, files)

CameraModes == {"rtsps", "http"}
StreamUrls == {"rtsps://cam/stream", ""}

\* every configured required_consistency, a first start without inventory file
Init == InitWith(RequiredValues, CameraModes, StreamUrls, {AbsentFile})

(* ------------------------------------------------------------------ *)
(* Main loop                                                           *)
(* ------------------------------------------------------------------ *)
Ev(op) == [NoEvent EXCEPT !.op = op]

\* mutant: the iteration ends and the next one starts at once, without time.sleep
EndIteration_skips_sleep ==
    /\ pc' = "capture"
    /\ seen' = NoScan
    /\ UNCHANGED detected_in
    /\ frame' = NoImage
    /\ detections' = <<>>
    /\ det_i' = 0
    /\ out' = NoOut

\* the locals are dead once the iteration ends: each is assigned again before use
EndIteration ==
    /\ pc' = "sleep"
    /\ seen' = NoScan
    /\ UNCHANGED detected_in
    /\ frame' = NoImage
    /\ detections' = <<>>
    /\ det_i' = 0
    /\ out' = NoOut

CaptureOutcomes == {"frame", "none", "raise"}

\* cycle_idx += 1, the option checks and frame = get_frame_ffmpeg(stream_url);
\* "raise" is subprocess.run failing with anything but TimeoutExpired
BeginCycle(captured) ==
    /\ pc = "capture"
    /\ now < MaxCycles
    /\ now' = now + 1
    /\ cycle_idx' = cycle_idx + 1
    /\ IF camera_mode \notin {"rtsp", "rtsps"} \/ stream_url = ""
       THEN /\ captured = "none"
            /\ EndIteration
            /\ event' = Ev("bad_options")
            /\ UNCHANGED <<fails, pre_outage>>
       ELSE IF captured = "raise"
       THEN /\ EndIteration
            /\ event' = Ev("capture_raised")
            /\ UNCHANGED <<fails, pre_outage>>
       ELSE /\ event' = Ev(IF captured = "none" THEN "got_none" ELSE "got_frame")
            /\ fails' = IF captured = "none" THEN fails + 1 ELSE 0
            /\ pre_outage' = CASE captured # "none" -> InitSTATE
                                [] fails = 0 -> STATE_dict
                                [] OTHER -> pre_outage
            /\ IF frame_is_none(get_frame_ffmpeg(captured, now'))
               THEN EndIteration
               ELSE /\ frame' = get_frame_ffmpeg(captured, now')
                    /\ pc' = "detect"
                    /\ UNCHANGED <<detections, det_i, out, seen, detected_in>>
    /\ history' = IF pc' = "sleep" THEN history_after_skip(history) ELSE history
    /\ UNCHANGED <<overlay_vars, config_vars, confirmed, confirmed_type, inv_file, STATE_dict, STATE_LOCK,
                   reader_vars, restarts, STATE_cycle, obs, persist_log, imaged>>

\* mutant: the main thread keeps one list and one dict and refills them every cycle, so
\* every reference handed out by an earlier publish shows the new content
held_after_build_in_place(held, from_cycle, built) ==
    IF from_cycle > 0 THEN built ELSE held

\* "detections = []" in detect_qr_robust and "fi = {...}" in the main loop build a new
\* object and bind the name to it: an object published by cycle from_cycle and still
\* held in STATE or in the locals of a request keeps its content
held_after_build(held, from_cycle, built) == held

\* detections = detect_qr_robust(frame, zones, cycle_idx), where "scan" is what the cv2
\* calls of the three passes return for the frame; an exception that leaves
\* detect_qr_robust ends the iteration in the except clause of the main loop
DetectScan(scan) ==
    /\ pc = "detect"
    /\ LET r == detect_qr_robust(scan, zones_opt, frame.w, frame.h)
       IN  IF r.raised
           THEN /\ pc' = "sleep"
                /\ frame' = NoImage
                /\ detections' = <<>>
                /\ det_i' = 0
                /\ out' = NoOut
                /\ event' = Ev("detect_raised")
           ELSE /\ detections' = r.detections
                /\ det_i' = 1
                /\ pc' = IF Len(r.detections) = 0 THEN "render" ELSE "observe"
                /\ event' = Ev("detected")
                /\ UNCHANGED <<frame, out>>
    /\ LET built == detect_qr_robust(scan, zones_opt, frame.w, frame.h).detections
       IN  /\ STATE_dict' = [STATE_dict EXCEPT !.detections =
                                held_after_build(@, STATE_cycle.detections, built)]
           /\ rcopy' = [q \in Readers |->
                          [rcopy[q] EXCEPT !.detections =
                              held_after_build(@, rcopy_cycle[q].detections, built)]]
    /\ seen' = scan
    /\ detected_in' =
          LET dets == detect_qr_robust(scan, zones_opt, frame.w, frame.h).detections
          IN  [p \in Payloads |->
                 IF \E k \in 1..Len(dets) : dets[k].payload = p
                 THEN detected_in[p] + 1 ELSE detected_in[p]]
    /\ UNCHANGED <<overlay_vars, config_vars, inventory_vars, cycle_idx, now, STATE_LOCK, rpc, rcopy_cycle,
                   restarts, STATE_cycle, obs, persist_log, imaged, fails, pre_outage>>

\* the same when passes 1 and 2 make the attempts "harvest" and pass 3 works on the
\* candidates they located
DetectFrame(harvest, decode) ==
    /\ pc = "detect"
    /\ DetectScan(scan_of_frame(harvest, decode, max_candidates, zones_opt, frame.w, frame.h))

\* the same when the first variant of pass 1 reads the entries of "best", or when
\* detect_qr_robust raises at once
Detect(best, raised) ==
    /\ raised => best = <<>>
    /\ DetectScan(ScanOf(best, raised))

\* mutant: the test "confirmed_zone is not None" is dropped
persist_mapping_called_for_none(confirmed_zone, h, n) ==
    Len(h) >= n /\ Cardinality(SetOf(h)) = 1

\* "if confirmed_zone is not None: persist_mapping(info, confirmed_zone)"
persist_mapping_called(confirmed_zone, h, n) == confirmed_zone # NONE

\* one iteration of "for det in detections": history append, confirmation, persist_mapping.
\* An AttributeError of confirmed.get is raised outside persist_mapping's own try block
\* and ends the iteration in the except clause of the main loop.
Observe(outcome) ==
    /\ pc = "observe"
    /\ LET det == detections[det_i]
           info == det.payload
           zone == det.zone
           h == deque_append(history[info], zone, history_maxlen)
           confirmed_zone == confirmed_zone_of(h, history_maxlen)
           prev == Get(confirmed, info)
           called == persist_mapping_called(confirmed_zone, h, history_maxlen)
           writes == called /\ persist_writes(confirmed, info, confirmed_zone)
           call == [op |-> "persist", payload |-> info, zone |-> confirmed_zone, prev |-> prev,
                    write |-> IF writes THEN outcome ELSE "skip"]
       IN  /\ history' = [history EXCEPT ![info] = h]
           /\ obs' = [obs EXCEPT ![info] = Append(@, zone)]
           /\ IF called /\ get_raises(confirmed_type)
              THEN /\ outcome = "ok"
                   /\ EndIteration
                   /\ event' = [Ev("persist_raised") EXCEPT !.payload = info, !.zone = confirmed_zone]
                   /\ UNCHANGED <<confirmed, inv_file, persist_log>>
              ELSE /\ writes \/ outcome = "ok"
                   /\ det_i' = det_i + 1
                   /\ pc' = IF det_i = Len(detections) THEN "render" ELSE "observe"
                   /\ UNCHANGED <<frame, detections, out, seen, detected_in>>
                   /\ IF called
                      THEN /\ confirmed' = persist_confirmed(confirmed, info, confirmed_zone)
                           /\ inv_file' = persist_file(confirmed, inv_file, info, confirmed_zone, outcome)
                           /\ event' = call
                           /\ prev_call' = last_call
                           /\ last_call' = call
                           /\ unflushed' = CASE call.write = "skip" -> unflushed
                                             [] call.write = "ok" -> {}
                                             [] OTHER -> {m \in unflushed : m[1] # info}
                                                           \cup {<<info, confirmed_zone>>}
                      ELSE /\ event' = [Ev("observe") EXCEPT !.payload = info, !.zone = zone]
                           /\ UNCHANGED <<confirmed, inv_file, persist_log>>
    /\ UNCHANGED <<overlay_vars, config_vars, confirmed_type, cycle_idx, now, STATE_dict, STATE_LOCK,
                   reader_vars, restarts, STATE_cycle, imaged, fails, pre_outage>>

\* overlay = draw_overlay(...); frame_png = _encode_png(frame); overlay_png = _encode_png(overlay); fi = {...}
Render(ok_frame, ok_overlay, raised) ==
    /\ pc = "render"
    /\ IF raised
       THEN /\ ok_frame /\ ok_overlay
            /\ EndIteration
            /\ event' = Ev("render_raised")
            /\ UNCHANGED <<STATE_dict, rcopy>>
       ELSE LET overlay == draw_overlay(frame, detections, zones_opt)
                raw == frame_after_draw(frame, overlay)
                frame_png == encode_png(raw, ok_frame)
                overlay_png == encode_png(overlay, ok_overlay)
                fi == frame_info(frame, frame_png, overlay_png, detections)
            IN  /\ out' = [frame_png |-> frame_png, overlay_png |-> overlay_png, fi |-> fi]
                /\ STATE_dict' = [STATE_dict EXCEPT !.last_frame_info =
                                     held_after_build(@, STATE_cycle.last_frame_info, fi)]
                /\ rcopy' = [q \in Readers |->
                               [rcopy[q] EXCEPT !.last_frame_info =
                                   held_after_build(@, rcopy_cycle[q].last_frame_info, fi)]]
                /\ frame' = raw
                /\ pc' = "lock"
                /\ event' = Ev("rendered")
                /\ UNCHANGED <<detections, det_i, seen, detected_in>>
    /\ UNCHANGED <<overlay_vars, config_vars, inventory_vars, cycle_idx, now, STATE_LOCK, rpc, rcopy_cycle,
                   restarts, STATE_cycle, obs, persist_log, imaged, fails, pre_outage>>

\* mutant: a lock that never makes a thread wait
LockAvailable_always(lock) == TRUE

\* threading.Lock: acquire succeeds only while nobody holds the lock
LockAvailable(lock) == lock = FREE

\* "with STATE_LOCK:" in the main loop, entry
PublishAcquire ==
    /\ pc = "lock"
    /\ LockAvailable(STATE_LOCK)
    /\ STATE_LOCK' = WORKER
    /\ pc' = PublishOrder[1]
    /\ event' = Ev("locked")
    /\ UNCHANGED <<overlay_vars, config_vars, inventory_vars, cycle_idx, now, worker_locals, STATE_dict, reader_vars,
                   restarts, STATE_cycle, obs, persist_log, imaged, fails, pre_outage, seen, detected_in>>

\* the value the main loop assigns to STATE[field]
PublishValue(field) ==
    CASE field = "ts" -> now
      [] field = "frame_png" -> out.frame_png
      [] field = "overlay_png" -> out.overlay_png
      [] field = "detections" -> detections
      [] field = "last_frame_info" -> out.fi

\* one of the five assignments STATE[field] = ...
PublishAssign(k) ==
    /\ pc = PublishOrder[k]
    /\ STATE_dict' = [STATE_dict EXCEPT ![PublishOrder[k]] = PublishValue(PublishOrder[k])]
    /\ STATE_cycle' = [STATE_cycle EXCEPT ![PublishOrder[k]] = now]
    /\ pc' = IF k < Len(PublishOrder) THEN PublishOrder[k + 1] ELSE "unlock"
    /\ event' = Ev("assigned")
    /\ UNCHANGED <<overlay_vars, config_vars, inventory_vars, cycle_idx, now, worker_locals, STATE_LOCK, reader_vars,
                   restarts, obs, persist_log, imaged, fails, pre_outage, seen, detected_in>>

\* "with STATE_LOCK:" in the main loop, exit; the try block ends
PublishRelease ==
    /\ pc = "unlock"
    /\ STATE_LOCK' = FREE
    /\ EndIteration
    /\ event' = Ev("published")
    /\ imaged' = (imaged \/ HasImages(STATE_dict))
    /\ UNCHANGED <<overlay_vars, config_vars, inventory_vars, cycle_idx, now, STATE_dict, reader_vars,
                   restarts, STATE_cycle, obs, persist_log, fails, pre_outage>>

\* the whole "with STATE_LOCK:" block of the main loop, when no other thread runs in between
Publish ==
    /\ pc = "lock"
    /\ LockAvailable(STATE_LOCK)
    /\ STATE_dict' = [f \in DOMAIN STATE_dict |-> PublishValue(f)]
    /\ STATE_cycle' = [f \in DOMAIN STATE_cycle |-> now]
    /\ EndIteration
    /\ event' = Ev("published")
    /\ imaged' = (imaged \/ HasImages(STATE_dict'))
    /\ UNCHANGED <<overlay_vars, config_vars, inventory_vars, cycle_idx, now, STATE_LOCK, reader_vars,
                   restarts, obs, persist_log, fails, pre_outage>>

\* time.sleep(interval), then the next iteration of "while True".  time.sleep raises
\* ValueError on a negative interval: the sleeps inside the try block hand it to the
\* except clause, the sleep after the except clause (l.978) raises it out of the loop
\* and the main thread ends.
Sleep ==
    /\ pc = "sleep"
    /\ pc' = IF interval < 0 THEN "dead" ELSE "capture"
    /\ seen' = NoScan
    /\ UNCHANGED detected_in
    /\ event' = Ev(IF interval < 0 THEN "died" ELSE "slept")
    /\ UNCHANGED <<overlay_vars, config_vars, inventory_vars, cycle_idx, now, worker_locals, STATE_dict, STATE_LOCK,
                   reader_vars, restarts, STATE_cycle, obs, persist_log, imaged, fails, pre_outage>>

(* ------------------------------------------------------------------ *)
(* OverlayHandler.do_GET, one thread per request                       *)
(* ------------------------------------------------------------------ *)
OVERLAY_PNG_NAME == "qr.png"

Paths == {"/", "/index.html", "/overlay.png", "/qr.png", "/frame.png", "/detections.json", "/missing"}

Resp(code, ctype, kind) == [NoResp EXCEPT !.code = code, !.ctype = ctype, !.kind = kind]

\* the response do_GET builds from the five copied values once the lock is released
Respond(path, c) ==
    CASE path \in {"/", "/index.html"} ->
           [Resp(200, "text/html", "index") EXCEPT !.ts = c.ts, !.frame_info = c.last_frame_info]
      [] path \in {"/overlay.png", "/qr.png"} ->
           IF c.overlay_png = NoImage
           THEN Resp(503, "text/plain", "overlay not ready")
           ELSE [Resp(200, "image/png", "png") EXCEPT !.png = c.overlay_png]
      [] path = "/frame.png" ->
           IF c.frame_png = NoImage
           THEN Resp(503, "text/plain", "frame not ready")
           ELSE [Resp(200, "image/png", "png") EXCEPT !.png = c.frame_png]
      [] path = "/detections.json" ->
           [Resp(200, "application/json", "json") EXCEPT
               !.ts = c.ts, !.detections = c.detections, !.frame_info = c.last_frame_info]
      [] OTHER -> Resp(404, "text/plain", "not found")

\* a request arrives and its thread enters do_GET
ReaderStart(r) ==
    /\ rpc[r] = "idle"
    /\ rpc' = [rpc EXCEPT ![r] = "lock"]
    /\ UNCHANGED <<rcopy, rcopy_cycle>>
    /\ UNCHANGED <<overlay_vars, config_vars, inventory_vars, cycle_idx, now, pc, worker_locals, STATE_dict,
                   STATE_LOCK, restarts, STATE_cycle, obs, event, persist_log, imaged, fails, pre_outage, seen, detected_in>>

\* "with STATE_LOCK:" in do_GET, entry
ReaderAcquire(r) ==
    /\ rpc[r] = "lock"
    /\ LockAvailable(STATE_LOCK)
    /\ STATE_LOCK' = r
    /\ rpc' = [rpc EXCEPT ![r] = CopyOrder[1]]
    /\ UNCHANGED <<overlay_vars, config_vars, inventory_vars, cycle_idx, now, pc, worker_locals, STATE_dict,
                   rcopy, rcopy_cycle,
                   restarts, STATE_cycle, obs, event, persist_log, imaged, fails, pre_outage, seen, detected_in>>

\* one of the five reads of STATE[field] into a local
ReaderCopy(r, k) ==
    /\ rpc[r] = CopyOrder[k]
    /\ rcopy' = [rcopy EXCEPT ![r][CopyOrder[k]] = STATE_dict[CopyOrder[k]]]
    /\ rcopy_cycle' = [rcopy_cycle EXCEPT ![r][CopyOrder[k]] = STATE_cycle[CopyOrder[k]]]
    /\ rpc' = [rpc EXCEPT ![r] = IF k < Len(CopyOrder) THEN CopyOrder[k + 1] ELSE "unlock"]
    /\ UNCHANGED <<overlay_vars, config_vars, inventory_vars, cycle_idx, now, pc, worker_locals, STATE_dict,
                   STATE_LOCK,
                   restarts, STATE_cycle, obs, event, persist_log, imaged, fails, pre_outage, seen, detected_in>>

\* mutant: the response is built and sent inside the "with" block, the lock still held
ReaderRelease_after_send(r) ==
    /\ rpc[r] = "unlock"
    /\ rpc' = [rpc EXCEPT ![r] = "respond"]
    /\ UNCHANGED <<overlay_vars, config_vars, inventory_vars, cycle_idx, now, pc, worker_locals, STATE_dict,
                   STATE_LOCK, rcopy, rcopy_cycle,
                   restarts, STATE_cycle, obs, event, persist_log, imaged, fails, pre_outage, seen, detected_in>>

\* "with STATE_LOCK:" in do_GET, exit
ReaderRelease(r) ==
    /\ rpc[r] = "unlock"
    /\ STATE_LOCK' = FREE
    /\ rpc' = [rpc EXCEPT ![r] = "respond"]
    /\ UNCHANGED <<overlay_vars, config_vars, inventory_vars, cycle_idx, now, pc, worker_locals, STATE_dict,
                   rcopy, rcopy_cycle,
                   restarts, STATE_cycle, obs, event, persist_log, imaged, fails, pre_outage, seen, detected_in>>

\* the response thread r is about to send for the path of its request
Response(r, path) == Respond(path, rcopy[r])

\* the branch on path and self._send(...): Response(r, path) leaves the process and the
\* thread ends.  Nothing reads the path before this branch, so it is drawn here.
ReaderRespond(r, path) ==
    /\ rpc[r] = "respond"
    /\ Response(r, path).code \in {200, 404, 503}
    /\ rpc' = [rpc EXCEPT ![r] = "idle"]
    /\ rcopy' = [rcopy EXCEPT ![r] = NoCopy]
    /\ rcopy_cycle' = [rcopy_cycle EXCEPT ![r] = ZeroCycle]
    /\ UNCHANGED <<overlay_vars, config_vars, inventory_vars, cycle_idx, now, pc, worker_locals, STATE_dict,
                   STATE_LOCK,
                   restarts, STATE_cycle, obs, event, persist_log, imaged, fails, pre_outage, seen, detected_in>>

Reader(r, paths) ==
    \/ ReaderStart(r)
    \/ ReaderAcquire(r)
    \/ \E k \in 1..Len(CopyOrder) : ReaderCopy(r, k)
    \/ ReaderRelease(r)
    \/ \E path \in paths : ReaderRespond(r, path)

\* the process is stopped and started again: module-level code runs anew on the same files
Restart ==
    /\ restarts < MaxRestarts
    /\ restarts' = restarts + 1
    /\ history' = [p \in Payloads |-> <<>>]
    /\ confirmed' = load_inventory(inv_file)
    /\ confirmed_type' = load_type(inv_file)
    /\ cycle_idx' = 0
    /\ pc' = "capture"
    /\ frame' = NoImage
    /\ detections' = <<>>
    /\ det_i' = 0
    /\ out' = NoOut
    /\ STATE_dict' = InitSTATE
    /\ STATE_LOCK' = FREE
    /\ rpc' = [r \in Readers |-> "idle"]
    /\ rcopy' = [r \in Readers |-> NoCopy]
    /\ STATE_cycle' = ZeroCycle
    /\ rcopy_cycle' = [r \in Readers |-> ZeroCycle]
    /\ obs' = [p \in Payloads |-> <<>>]
    /\ event' = Ev("restart")
    /\ prev_call' = NoCall
    /\ last_call' = NoCall
    /\ unflushed' = {}
    /\ imaged' = FALSE
    /\ fails' = 0
    /\ pre_outage' = InitSTATE
    /\ seen' = NoScan
    /\ detected_in' = [p \in Payloads |-> 0]
    /\ UNCHANGED <<overlay_vars, config_vars, inv_file, now>>

\* the environment of one specification: what the camera delivers, what the passes
\* decode, whether a step raises, whether cv2.imencode and the file write succeed
Env(captures, bests, raises, encs, writes) ==
    [captures |-> captures, bests |-> bests, raises |-> raises, encs |-> encs, writes |-> writes]

\* the loop body up to the publish block
Cycle(env) ==
    \/ \E captured \in env.captures : BeginCycle(captured)
    \/ \E best \in env.bests, raised \in env.raises : Detect(best, raised)
    \/ \E outcome \in env.writes : Observe(outcome)
    \/ \E ok \in env.encs, raised \in env.raises : Render(ok[1], ok[2], raised)
    \/ Sleep

\* the main thread alone
Worker(env) ==
    \/ Cycle(env)
    \/ Publish

\* the main thread, statement by statement inside the publish block
WorkerSteps(env) ==
    \/ Cycle(env)
    \/ PublishAcquire
    \/ \E k \in 1..Len(PublishOrder) : PublishAssign(k)
    \/ PublishRelease

\* the main loop when every file write and every PNG encoding succeeds
Next == Worker(Env(CaptureOutcomes, BestDictsP1First, BOOLEAN, {<<TRUE, TRUE>>}, {"ok"}))

Spec == Init /\ [][Next]_vars

\* the main loop with failing inventory writes, and process restarts
StoreRequired == {1, 2}

\* p1 decoded inside a zone, before p2
StoreBests == {b \in BestDictsP1First : \A k \in 1..Len(b) : b[k].centroid # <<5, 5>>}

InitStore == InitWith(StoreRequired, {"rtsps"}, {"rtsps://cam/stream"}, {AbsentFile})

NextStore ==
    \/ Worker(Env({"frame"}, StoreBests, {FALSE}, {<<TRUE, TRUE>>}, WriteOutcomes))
    \/ Restart

SpecStore == InitStore /\ [][NextStore]_vars

\* the main thread and the request threads, statement by statement around STATE_LOCK
\* every captured frame shows tag p1 inside zone B
ServeBests == {<<e>> : e \in {f \in BestEntries : f.payload = "p1" /\ f.centroid = <<3, 1>>}}

\* one path per branch of do_GET
ServePaths == {"/", "/overlay.png", "/frame.png", "/detections.json", "/missing"}

\* cv2.imencode succeeds for both images of a cycle or fails for both
ServeEncs == {<<TRUE, TRUE>>, <<FALSE, FALSE>>}

InitServe == InitWith({1}, {"rtsps"}, {"rtsps://cam/stream"}, {AbsentFile})

NextServe ==
    \/ WorkerSteps(Env({"frame", "none"}, ServeBests, {FALSE}, ServeEncs, {"ok"}))
    \/ \E r \in Readers : Reader(r, ServePaths)

SpecServe == InitServe /\ [][NextServe]_vars

\* the main thread alone under every failure of a step: a missing frame, an exception in
\* capture, detection or rendering, a failing PNG encoding, a failing or raising
\* inventory write; and every interval_seconds that _opt_int lets through
IntervalValues == {-1, DefaultInterval}

\* tag p1 inside zone B, or nothing decoded
LiveBests == {<<>>} \cup ServeBests

InitLive ==
    InitOpts({1}, CameraModes, {"rtsps://cam/stream"}, IntervalValues,
             {AbsentFile, NotAMappingFile})

NextLive == Worker(Env(CaptureOutcomes, LiveBests, BOOLEAN, ServeEncs, WriteOutcomes))

\* the main thread is never suspended for good
SpecLive == InitLive /\ [][NextLive]_vars /\ WF_vars(NextLive)

\* the main thread alone under every value of the option zones: entries that are
\* rectangles (two of them overlap on the column x = 2), a rectangle of width 0, a
\* rectangle with x2 < x1, a list of three numbers, a list with a string for x1 or for y2
ZoneBoxes ==
    {<<0, 0, 2, 2>>, <<2, 0, 4, 2>>, <<2, 0, 2, 2>>, <<4, 0, 2, 2>>, <<0, 0, 2>>,
     <<NotANumber, 0, 4, 2>>, <<0, 0, 4, NotANumber>>}

\* dicts of at most two entries, in each order of the keys
ZoneSets ==
    {<<>>} \cup {<<e>> : e \in ZoneNames \X ZoneBoxes}
           \cup {<<x[1], x[2]>> :
                    x \in {y \in (ZoneNames \X ZoneBoxes) \X (ZoneNames \X ZoneBoxes) :
                              y[1][1] # y[2][1]}}

\* one tag decoded at any of the points, or none
ZoneBests == BestDictsOver({e \in BestEntries : e.payload = "p1"})

InitZones ==
    InitConf({1}, {"rtsps"}, {"rtsps://cam/stream"}, {DefaultInterval}, ZoneSets, {AbsentFile})

NextZones == Worker(Env({"frame"}, ZoneBests, {FALSE}, {<<TRUE, TRUE>>}, {"ok"}))

SpecZones == InitZones /\ [][NextZones]_vars

\* the main thread alone, started on every state of the inventory file
InitBoot ==
    InitConf({1, 2}, {"rtsps"}, {"rtsps://cam/stream"}, {DefaultInterval}, {zones}, InitialFiles)

NextBoot == Worker(Env({"frame"}, LiveBests, {FALSE}, {<<TRUE, TRUE>>}, {"ok"}))

SpecBoot == InitBoot /\ [][NextBoot]_vars

\* detect_qr_robust on the first frame, for every scan of at most MaxAttempts attempts.
\* The quads: two well-formed ones of different area, one whose longest edge is 5 px,
\* one with two distinct points only.
BigQuad == Quad(<<3, 1>>, 30, 6, 4)
SmallQuad == Quad(<<2, 1>>, 20, 6, 4)
ShortEdgeQuad == Quad(<<3, 1>>, 25, MinEdge, 4)
LineQuad == Quad(<<5, 5>>, 0, 6, 2)

DetectQuads == {BigQuad, SmallQuad, ShortEdgeQuad, LineQuad}

\* (payload, pts) pairs: tag p1 with every quad, tag p2 with the big one
P1Reads == {Read("p1", q, NoScore) : q \in DetectQuads}
DetectReads == P1Reads \cup {Read("p2", BigQuad, NoScore)}

\* a candidate of pass 3 in whose warp nothing decodes
UndecodedRead == Read("", BigQuad, WarpScore)

DetectAttempts ==
    {Attempt(1, 0, "none", <<r>>) : r \in DetectReads}
    \cup {Attempt(1, 0, f, <<>>) : f \in {"none", "preprocess", "decode"}}
    \cup {Attempt(2, z, "none", <<Read("p1", q, NoScore)>>) :
             z \in {1, 2}, q \in {SmallQuad, ShortEdgeQuad}}
    \cup {Attempt(2, 1, f, <<>>) : f \in {"preprocess", "decode"}}
    \cup {Attempt(3, 0, "none", <<r>>) :
             r \in {Read("p1", q, WarpScore) : q \in {BigQuad, ShortEdgeQuad}}
                    \cup {UndecodedRead}}
    \cup {Attempt(3, 0, f, <<Read("p1", BigQuad, WarpScore)>>) :
             f \in {"preprocess", "decode", "warp"}}

\* pass 1 comes before pass 2 before pass 3
InPassOrder(scan) == \A k \in 1..(Len(scan) - 1) : scan[k].pass <= scan[k + 1].pass

Scans ==
    {scan \in UNION {[1..n -> DetectAttempts] : n \in 0..MaxAttempts} : InPassOrder(scan)}

\* the zones A and B, and A with an entry B of three numbers
DetectZoneSets == {zones, << <<"A", <<0, 0, 2, 2>> >>, <<"B", <<2, 0, 4>> >> >>}

InitDetect ==
    InitConf({1}, {"rtsps"}, {"rtsps://cam/stream"}, {DefaultInterval}, DetectZoneSets,
             {AbsentFile})

\* a frame is captured, and then scanned by at most MaxAttempts attempts
NextDetect ==
    \/ BeginCycle("frame")
    \/ pc = "detect" /\ \E scan \in Scans : DetectScan(scan)

SpecDetect == InitDetect /\ [][NextDetect]_vars

\* detect_qr_robust on the first frame, for every configured max_candidates that
\* _opt_int lets through and every harvest of at most MaxAttempts located quads.
\* The quads lie in four buckets; two share a bucket, two have the same area.
CapValues == {-1, 0, 1, 2, DefaultMaxCandidates}

CandQuads ==
    {Quad(<<3, 1>>, 30, 6, 4), Quad(<<5, 5>>, 20, 6, 4), Quad(<<25, 1>>, 40, 8, 4),
     Quad(<<45, 3>>, 10, 6, 4), Quad(<<25, 25>>, 30, 6, 4)}

\* a variant of pass 1, or a scale of the region of zone A in pass 2, locates one quad
HarvestAttempts ==
    {Harvest(1, 0, <<q>>) : q \in CandQuads} \cup {Harvest(2, 1, <<q>>) : q \in CandQuads}

Harvests ==
    {scan \in UNION {[1..n -> HarvestAttempts] : n \in 0..MaxAttempts} : InPassOrder(scan)}

\* per candidate of pass 3: nothing decodes, or tag p1
Decodes == [1..MaxAttempts -> {"", "p1"}]

InitCand ==
    InitFull({1}, {"rtsps"}, {"rtsps://cam/stream"}, {DefaultInterval}, {zones},
             {AbsentFile}, CapValues)

NextCand ==
    \/ BeginCycle("frame")
    \/ pc = "detect" /\ \E harvest \in Harvests, decode \in Decodes : DetectFrame(harvest, decode)

SpecCand == InitCand /\ [][NextCand]_vars

\* whole cycles in which the reads of a frame carry scores: tag p1 read with a large
\* quad in zone B, with and without a high score, with a small quad in zone A and a
\* high score, and in no zone without score
ScoredReads ==
    {Read("p1", BigQuad, NoScore), Read("p1", BigQuad, 90), Read("p1", SmallQuad, 90),
     Read("p1", LineQuad, NoScore)}

ScoredAttempts == {Attempt(1, 0, "none", <<r>>) : r \in ScoredReads}

ScoredScans ==
    {scan \in UNION {[1..n -> ScoredAttempts] : n \in 0..MaxAttempts} : InPassOrder(scan)}

InitScore ==
    InitConf({2}, {"rtsps"}, {"rtsps://cam/stream"}, {DefaultInterval}, {zones}, {AbsentFile})

NextScore ==
    \/ BeginCycle("frame")
    \/ pc = "detect" /\ \E scan \in ScoredScans : DetectScan(scan)
    \/ Observe("ok")
    \/ Render(TRUE, TRUE, FALSE)
    \/ Publish
    \/ Sleep

SpecScore == InitScore /\ [][NextScore]_vars

\* the main loop with N = 2 where tag p1 comes and goes: it is decoded inside zone B or
\* not at all, the camera may deliver nothing, and any step may raise
GapBests == {<<>>} \cup ServeBests

InitGaps == InitWith({2}, CameraModes, {"rtsps://cam/stream"}, {AbsentFile})

NextGaps == Worker(Env(CaptureOutcomes, GapBests, BOOLEAN, {<<TRUE, TRUE>>}, {"ok"}))

SpecGaps == InitGaps /\ [][NextGaps]_vars

\* the same runs when the main thread, the only thread here, is never suspended for good
SpecAbort == InitGaps /\ [][NextGaps]_vars /\ WF_vars(NextGaps)

\* the main thread and the request threads under a fair scheduler.  Every step that only
\* computes is taken once it stays possible; a thread waiting for STATE_LOCK gets it if
\* the lock is free again and again; a request may never arrive, and self._send may
\* wait for its client forever, so these two steps are not forced.
FairPaths == {"/detections.json"}

WorkerCompute(env) ==
    \/ Cycle(env)
    \/ \E k \in 1..Len(PublishOrder) : PublishAssign(k)
    \/ PublishRelease

ReaderCompute(r) ==
    \/ \E k \in 1..Len(CopyOrder) : ReaderCopy(r, k)
    \/ ReaderRelease(r)

FairEnv == Env({"frame"}, ServeBests, {FALSE}, {<<TRUE, TRUE>>}, {"ok"})

NextFair ==
    \/ WorkerSteps(FairEnv)
    \/ \E r \in Readers : Reader(r, FairPaths)

Fairness ==
    /\ WF_vars(WorkerCompute(FairEnv))
    /\ SF_vars(PublishAcquire)
    /\ \A r \in Readers : WF_vars(ReaderCompute(r))

SpecFair == InitServe /\ [][NextFair]_vars /\ Fairness

\* the main thread and the request threads for /detections.json, statement by statement,
\* when the tag is in some frames and not in others
NextAlias ==
    \/ WorkerSteps(Env({"frame"}, GapBests, {FALSE}, {<<TRUE, TRUE>>}, {"ok"}))
    \/ \E r \in Readers : Reader(r, FairPaths)

SpecAlias == InitServe /\ [][NextAlias]_vars

(* ------------------------------------------------------------------ *)
(* qr-tag_overlay/app/server.py: updater and handlers                  *)
(* ------------------------------------------------------------------ *)
\* decode_qr_text(jpeg_bytes): Image.open raises on bytes that are no image; None when
\* zbar finds nothing; else the texts joined by " | "
decode_qr_text(jpeg_bytes) ==
    IF jpeg_bytes.kind # "jpeg" THEN [kind |-> "raise", text |-> EmptyStr]
    ELSE IF jpeg_bytes.codes = <<>> THEN [kind |-> "none", text |-> EmptyStr]
    ELSE [kind |-> "text", text |-> jpeg_bytes.codes]

\* "if decoded:": neither None nor ""
truthy(decoded) == decoded.kind = "text" /\ decoded.text # EmptyStr

\* annotate(jpeg_bytes, text, overlay_cfg) raises when int() refuses font_size or padding
annotate_raises(jpeg_bytes, cfg) ==
    jpeg_bytes.kind # "jpeg" \/ ~is_number(cfg.font_size) \/ ~is_number(cfg.padding)

\* annotate: the frame with the label "text if text else '-'" drawn into it
annotate(jpeg_bytes, text, cfg) ==
    Jpeg(jpeg_bytes.codes, IF text # EmptyStr THEN text ELSE Dash)

\* what the camera delivers: bytes that are no image, a frame without QR code, with one
\* code, with a code of empty content, with two codes
OverlayFrames ==
    {Garbage, Jpeg(<<>>, <<>>), Jpeg(<<"p1">>, <<>>), Jpeg(<<"p2">>, <<>>),
     Jpeg(<<"">>, <<>>), Jpeg(<<"p1", "p2">>, <<>>)}

\* top of the loop body: state.source is set and the fetch is awaited
UpdaterBegin ==
    /\ updater_pc \in {"start", "sleeping"}
    /\ clock < MaxPolls
    /\ state' = [state EXCEPT !.source = "rtsp(tcp)"]
    /\ updater_pc' = "fetching"
    /\ UNCHANGED <<overlay_cfg, clock, iteration, reply>>
    /\ UNCHANGED <<program_vars, history_vars>>

\* the fetch returns "raw" or raises ("fail"); the rest of the try block runs without an
\* await, its exceptions end in the except clause; then asyncio.sleep is awaited
UpdaterIterate(fail, raw) ==
    /\ updater_pc = "fetching"
    /\ clock' = clock + 1
    /\ updater_pc' = "sleeping"
    /\ LET decoded == decode_qr_text(raw)
           text == IF truthy(decoded) THEN decoded.text ELSE state.last_text
           seen_ts == IF truthy(decoded) THEN clock' ELSE state.last_seen_ts
       IN  IF fail
           THEN /\ raw = Garbage
                /\ UNCHANGED state
                /\ iteration' = [NoIteration EXCEPT !.fetch = "raise"]
           ELSE IF decoded.kind = "raise"
           THEN /\ state' = [state EXCEPT !.last_raw_jpeg = raw]
                /\ iteration' = [NoIteration EXCEPT !.fetch = "ok", !.decoded = "raise"]
           ELSE IF annotate_raises(raw, overlay_cfg)
           THEN /\ state' = [state EXCEPT !.last_raw_jpeg = raw, !.last_text = text,
                                          !.last_seen_ts = seen_ts]
                /\ iteration' = [fetch |-> "ok", decoded |-> decoded.kind, text |-> decoded.text,
                                 annotated |-> "raise"]
           ELSE /\ state' = [state EXCEPT !.last_raw_jpeg = raw, !.last_text = text,
                                          !.last_seen_ts = seen_ts,
                                          !.last_annotated_jpeg = annotate(raw, text, overlay_cfg)]
                /\ iteration' = [fetch |-> "ok", decoded |-> decoded.kind, text |-> decoded.text,
                                 annotated |-> "ok"]
    /\ UNCHANGED <<overlay_cfg, reply>>
    /\ UNCHANGED <<program_vars, history_vars>>

\* GET /snapshot.jpg
handle_snapshot ==
    /\ reply.seq < MaxRequests
    /\ reply' = IF state.last_annotated_jpeg = EmptyBytes
                THEN [NoReply EXCEPT !.seq = reply.seq + 1, !.handler = "snapshot", !.status = 503]
                ELSE [NoReply EXCEPT !.seq = reply.seq + 1, !.handler = "snapshot", !.status = 200,
                                     !.body = state.last_annotated_jpeg]
    /\ UNCHANGED <<overlay_cfg, state, updater_pc, clock, iteration>>
    /\ UNCHANGED <<program_vars, history_vars>>

\* GET /status
handle_status ==
    /\ reply.seq < MaxRequests
    /\ reply' = [NoReply EXCEPT !.seq = reply.seq + 1, !.handler = "status", !.status = 200,
                                !.last_text = state.last_text,
                                !.last_seen_ts = state.last_seen_ts]
    /\ UNCHANGED <<overlay_cfg, state, updater_pc, clock, iteration>>
    /\ UNCHANGED <<program_vars, history_vars>>

\* the overlay server: the updater task and the handlers on one event loop, which
\* switches between them only where the updater awaits
InitOverlay ==
    /\ InitInventory({1}, {"rtsps"}, {"rtsps://cam/stream"}, {DefaultInterval}, {zones},
                     {AbsentFile}, {DefaultMaxCandidates})
    /\ InitState(OverlayCfgs)

NextOverlay ==
    \/ UpdaterBegin
    \/ \E raw \in OverlayFrames : UpdaterIterate(FALSE, raw)
    \/ UpdaterIterate(TRUE, Garbage)
    \/ handle_snapshot
    \/ handle_status

SpecOverlay == InitOverlay /\ [][NextOverlay]_vars

(* ------------------------------------------------------------------ *)
(* Properties                                                          *)
(* ------------------------------------------------------------------ *)
\* the last n zones of the observation sequence o are all z, and z is a zone
LastAre(o, z, n) ==
    /\ z # NONE
    /\ Len(o) >= n
    /\ \A k \in (Len(o) - n + 1)..Len(o) : o[k] = z

\* the same of the zones observed for payload p since startup
LastObservationsAre(p, z, n) == LastAre(obs[p], z, n)

\* required consistency N of the run
N == IF required >= 1 THEN required ELSE 1

\* C1: an observation of p is treated as a confirmation of z (persist_mapping(p, z) is
\* called) if and only if the last N observations of p are all z and z is not None; no
\* confirmation happens on fewer than N observations or on a history with two values.
C1_ConfirmsIffLastNEqual ==
    /\ event.op = "persist" =>
          /\ LastObservationsAre(event.payload, event.zone, N)
          /\ Len(obs[event.payload]) >= N
          /\ SetOf(history[event.payload]) = {event.zone}
    /\ event.op = "observe" =>
          /\ \A z \in ZoneNames : ~LastObservationsAre(event.payload, z, N)
          /\ \/ Len(obs[event.payload]) < N
             \/ event.zone = NONE
             \/ \E k \in (Len(obs[event.payload]) - N + 1)..Len(obs[event.payload]) :
                   obs[event.payload][k] # event.zone

\* N = 3 and the fourth observation of a tag confirms: the oldest observation was evicted
C1_Witness ==
    /\ required = 3
    /\ event.op = "persist"
    /\ obs[event.payload] = <<"B", "A", "A", "A">>

\* C2: within a run confirmed[p] is created or overwritten only by a step in which a
\* confirmation of (p, confirmed'[p]) fires; every other step leaves it unchanged, and
\* no key is ever removed.
C2_ConfirmedChangesOnlyOnConfirmation ==
    [][restarts' = restarts =>
          /\ (DOMAIN confirmed) \subseteq (DOMAIN confirmed')
          /\ \A p \in Payloads :
                Get(confirmed', p) # Get(confirmed, p) =>
                   /\ pc = "observe"
                   /\ event'.op = "persist"
                   /\ event'.payload = p
                   /\ event'.zone = confirmed'[p]
                   /\ LastAre(obs'[p], confirmed'[p], N)]_vars

\* a confirmed mapping has been overwritten with another zone
C2_Witness ==
    /\ event.op = "persist"
    /\ event.prev \in ZoneNames
    /\ event.prev # event.zone
    /\ confirmed[event.payload] = event.zone

\* C3: persist_mapping(p, z) on a stored mapping equal to z writes nothing and changes
\* nothing; of two consecutive calls with the same (p, z) the second never writes, and
\* exactly one write is made when the first call found another mapping stored.
C3_PersistIsIdempotent ==
    /\ [](event.op = "persist" /\ event.prev = event.zone => event.write = "skip")
    /\ [](last_call.op = "persist" /\ prev_call.op = "persist"
            /\ last_call.payload = prev_call.payload /\ last_call.zone = prev_call.zone
          => /\ last_call.write = "skip"
             /\ prev_call.prev # prev_call.zone => prev_call.write # "skip")
    /\ [][pc = "observe" /\ event'.op = "persist" /\ event'.prev = event'.zone
          => UNCHANGED <<confirmed, inv_file>>]_vars

\* persist(p, z); persist(p, z): the first call wrote the file, the second did not
C3_Witness ==
    /\ prev_call.op = "persist" /\ prev_call.write = "ok"
    /\ last_call.op = "persist" /\ last_call.write = "skip"
    /\ last_call.payload = prev_call.payload /\ last_call.zone = prev_call.zone
    /\ event = last_call

FailedWrites == {"open_fail", "dump_fail"}

\* a failing write is caught inside persist_mapping: the for loop goes on with the next
\* detection or the cycle goes on to render and publish, and confirmed holds the mapping
FailedWriteIsCaught ==
    pc = "observe" /\ event'.op = "persist" /\ event'.write \in FailedWrites
    => /\ Get(confirmed', event'.payload) = event'.zone
       /\ pc' = IF det_i < Len(detections) THEN "observe" ELSE "render"
       /\ det_i' = det_i + 1

\* C4 as claimed: a failing write is caught and keeps the mapping in memory, and the next
\* successful write leaves a file that holds every mapping whose write had failed.
C4_NextFlushHoldsFailedMapping ==
    [][/\ FailedWriteIsCaught
       /\ pc = "observe" /\ event'.op = "persist" /\ event'.write = "ok"
          => \A m \in unflushed :
                inv_file'.kind = "json" /\ Get(inv_file'.val, m[1]) = m[2]]_vars

\* C4 amended: a failing write is caught and keeps the mapping in memory, and the next
\* successful write leaves a file that holds, for every payload whose write had failed,
\* the zone the memory holds for it: the one whose write failed, or the zone this very
\* call confirms for it.
C4_NextFlushHoldsCurrentMapping ==
    [][/\ FailedWriteIsCaught
       /\ pc = "observe" /\ event'.op = "persist" /\ event'.write = "ok"
          => \A m \in unflushed :
                /\ inv_file'.kind = "json"
                /\ Get(inv_file'.val, m[1]) = Get(confirmed', m[1])
                /\ Get(inv_file'.val, m[1]) =
                      IF m[1] = event'.payload THEN event'.zone ELSE m[2]]_vars

\* the write for one tag failed, the write for another tag succeeded, and the file holds both
C4_Witness ==
    /\ prev_call.op = "persist" /\ prev_call.write \in FailedWrites
    /\ last_call.op = "persist" /\ last_call.write = "ok"
    /\ last_call.payload # prev_call.payload
    /\ event = last_call
    /\ inv_file.kind = "json"
    /\ Get(inv_file.val, prev_call.payload) = prev_call.zone
    /\ Get(inv_file.val, last_call.payload) = last_call.zone

\* C5: a restart loads a map that holds every mapping confirmed before it, and empties
\* every history.
C5_RestartKeepsConfirmed ==
    [][restarts' = restarts + 1 =>
          /\ \A p \in DOMAIN confirmed : Get(confirmed', p) = confirmed[p]
          /\ \A p \in Payloads : history'[p] = <<>>]_vars

\* C6: right after a successful write the file holds the whole in-memory map.
C6_FlushWritesWholeMap ==
    event.op = "persist" /\ event.write = "ok" =>
       /\ inv_file = json_dump(confirmed)
       /\ \A p \in DOMAIN confirmed : Get(inv_file.val, p) = confirmed[p]

\* a write for one tag has put the mappings of both tags into the file
C6_Witness ==
    /\ event.op = "persist" /\ event.write = "ok"
    /\ DOMAIN confirmed = Payloads
    /\ inv_file.kind = "json"
    /\ DOMAIN inv_file.val = Payloads

SnapshotFields == {"ts", "frame_png", "overlay_png", "detections", "last_frame_info"}

\* the five values are those of one publish: the same cycle assigned them, and they fit
FromOnePublish(c, cyc) ==
    /\ \A f \in SnapshotFields : cyc[f] = cyc.ts
    /\ c.ts = cyc.ts
    /\ c.ts = 0 => c = InitSTATE
    /\ c.ts # 0 =>
          /\ c.last_frame_info[5][2] = Len(c.detections)
          /\ c.last_frame_info[3][2] = png_bytes(c.frame_png)
          /\ c.last_frame_info[4][2] = png_bytes(c.overlay_png)
          /\ c.frame_png # NoImage => c.frame_png.id = c.ts
          /\ c.overlay_png # NoImage =>
                c.overlay_png.id = c.ts /\ c.overlay_png.marks = c.detections

\* C7: whatever the interleaving of the main thread and the request threads, the five
\* values a request has copied when it leaves the lock are those of one publish, and
\* outside the main thread's critical section STATE holds the values of one publish.
C7_SnapshotIsAtomic ==
    /\ \A r \in Readers :
          rpc[r] \in {"unlock", "respond"} => FromOnePublish(rcopy[r], rcopy_cycle[r])
    /\ STATE_LOCK # WORKER => FromOnePublish(STATE_dict, STATE_cycle)

\* a request holds the complete copy of the second publish or a later one while the main
\* thread is inside the next publish and another request waits for the lock
C7_Witness ==
    \E r, q \in Readers :
       /\ rpc[r] = "respond"
       /\ rcopy[r].ts >= 2
       /\ rcopy[r].detections # <<>>
       /\ STATE_LOCK = WORKER
       /\ pc = "overlay_png"
       /\ rpc[q] = "lock"

\* the paths of the four read surfaces: status page, annotated image, raw image, detections
SurfacePaths == {"/", "/overlay.png", "/frame.png", "/detections.json"}

\* C8: a request that copied STATE before the first publish answers every surface with
\* the not-ready response.
C8_NotReadyBeforeFirstPublish ==
    \A r \in Readers :
       rpc[r] = "respond" /\ rcopy_cycle[r] = ZeroCycle =>
          \A path \in SurfacePaths : Response(r, path).code = 503

\* C9: once a publish with a raw and an annotated image has completed, a request served
\* from the published snapshot gets an image for /overlay.png and for /frame.png.
C9_ImagesStayAvailable ==
    imaged /\ STATE_LOCK # WORKER =>
       \A path \in {"/overlay.png", "/frame.png"} :
          /\ Respond(path, STATE_dict).code = 200
          /\ Respond(path, STATE_dict).kind = "png"

\* C10: a cycle whose acquisition returns None leaves STATE, the histories, the confirmed
\* map and the file alone and goes to sleep, after which the loop starts the next cycle;
\* during an outage of any length STATE is the snapshot published before it, and that is
\* what a request copies.
C10_FailedAcquisitionSkipsCycle ==
    /\ [][pc = "capture" /\ event'.op = "got_none" =>
             /\ pc' = "sleep"
             /\ UNCHANGED <<STATE_dict, STATE_cycle, history, confirmed, inv_file>>]_vars
    /\ [][pc = "sleep" /\ pc' # pc => pc' = "capture"]_vars
    /\ [](fails > 0 =>
             /\ pc \in {"sleep", "capture"}
             /\ STATE_dict = pre_outage
             /\ \A r \in Readers : rpc[r] = "unlock" => rcopy[r] = pre_outage)

\* after two failed acquisitions in a row the loop is about to capture again, and a
\* request has copied the snapshot that was published before the outage
C10_Witness ==
    /\ fails >= 2
    /\ pc = "capture"
    /\ event.op = "slept"
    /\ pre_outage.ts > 0
    /\ pre_outage.frame_png # NoImage
    /\ \E r \in Readers : rpc[r] = "unlock" /\ rcopy[r] = pre_outage

\* a step of the cycle has failed: what the last step of the main thread met
FailureEvents == {"bad_options", "capture_raised", "got_none", "detect_raised", "persist_raised",
                  "render_raised"}

\* C11: the main thread never leaves the loop, and from every position in a cycle, also
\* after a step that failed, it gets to the next scheduled cycle: the clock of cycle c
\* is followed by the clock of cycle c + 1.
C11_WorkerAlwaysStartsNextCycle ==
    /\ [](pc # "dead")
    /\ \A c \in 0..(MaxCycles - 1) : (now = c) ~> (now = c + 1)
    /\ \A c \in 0..(MaxCycles - 2) :
          (now = c + 1 /\ event.op \in FailureEvents) ~> (now = c + 2)

\* the same for the intervals that time.sleep accepts
WorkerLiveOnValidInterval ==
    /\ [](interval >= 0 => pc # "dead")
    /\ \A c \in 0..(MaxCycles - 1) : (interval >= 0 /\ now = c) ~> (now = c + 1)
    /\ \A c \in 0..(MaxCycles - 2) :
          (interval >= 0 /\ now = c + 1 /\ event.op \in FailureEvents) ~> (now = c + 2)

\* the rectangle of the entry contains the point, bounds included
Contains(box, cx, cy) ==
    Len(box) = 4 /\ box[1] <= cx /\ cx <= box[3] /\ box[2] <= cy /\ cy <= box[4]

\* the name of the first entry of Z, in declaration order, whose rectangle contains the point
FirstContaining(Z, cx, cy) ==
    LET K == {k \in 1..Len(Z) : Contains(Z[k][2], cx, cy)}
    IN  IF K = {} THEN NONE ELSE Z[CHOOSE k \in K : \A j \in K : k <= j][1]

\* every coordinate of every entry of Z is a number
AllNumbers(Z) == \A k \in 1..Len(Z) : \A i \in 1..Len(Z[k][2]) : is_number(Z[k][2][i])

\* C12: for a zone set Z of numeric entries detect_qr_robust gives every detection the
\* first zone of Z, in declaration order, whose rectangle contains the centroid, bounds
\* included, or None when no rectangle contains it; the zone is a name of Z or None, and
\* the cycle before gave the same centroid the same zone.
C12_FirstContainingZone ==
    AllNumbers(zones_opt) =>
       /\ event.op # "detect_raised"
       /\ \A k \in 1..Len(detections) :
             /\ detections[k].zone =
                   FirstContaining(zones_opt, detections[k].centroid[1], detections[k].centroid[2])
             /\ detections[k].zone \in {zones_opt[j][1] : j \in 1..Len(zones_opt)} \cup {NONE}
             /\ \A j \in 1..Len(STATE_dict.detections) :
                   STATE_dict.detections[j].centroid = detections[k].centroid
                   => STATE_dict.detections[j].zone = detections[k].zone

\* a tag on the common border of two zones is given the zone declared first, here the
\* one named "B", and a tag on the upper bound x2 of a single zone is inside it
C12_Witness ==
    /\ Len(zones_opt) = 2
    /\ zones_opt[1][1] = "B"
    /\ Contains(zones_opt[1][2], 2, 1) /\ Contains(zones_opt[2][2], 2, 1)
    /\ zones_opt[1][2] # zones_opt[2][2]
    /\ pc = "render"
    /\ Len(detections) = 1
    /\ detections[1].centroid = <<2, 1>>
    /\ detections[1].zone = "B"
    /\ Len(STATE_dict.detections) = 1
    /\ STATE_dict.detections[1] = detections[1]

\* a well-formed entry: four numbers that span a rectangle
ValidZone(entry) ==
    /\ unpacks_to_ints(entry[2])
    /\ entry[2][1] < entry[2][3]
    /\ entry[2][2] < entry[2][4]

\* Z without its invalid entries
ValidOnly(Z) == SelectSeq(Z, ValidZone)

\* C13: whatever invalid entries the zone set holds, detection with its classification
\* completes, no detection is given the name of an invalid entry, every detection has the
\* zone it would have without the invalid entries, and the overlay shows the zones it
\* would show without them.
C13_InvalidZonesAreSkipped ==
    /\ event.op # "detect_raised"
    /\ \A k \in 1..Len(detections) :
          /\ detections[k].zone \notin
                {zones_opt[j][1] : j \in {i \in 1..Len(zones_opt) : ~ValidZone(zones_opt[i])}}
          /\ detections[k].zone =
                FirstContaining(ValidOnly(zones_opt),
                                detections[k].centroid[1], detections[k].centroid[2])
    /\ out.overlay_png # NoImage =>
          out.overlay_png.zones = overlay_zones(ValidOnly(zones_opt), FrameW, FrameH)

\* the files that hold no mapping: absent, unreadable, no JSON, JSON that is no object
FilesWithoutMapping == {AbsentFile, UnreadableFile, CorruptFile, NotAMappingFile}

\* C14: a process started on a file that is absent, unreadable, not valid JSON or not a
\* JSON object starts with an empty dict as confirmed map, and on every file state a later
\* confirmation goes through persist_mapping: the map holds the mapping and, the write
\* succeeding, the file holds the whole map.
C14_StartsWithUsableMap ==
    /\ event = NoEvent /\ inv_file \in FilesWithoutMapping =>
          confirmed = EmptyMap /\ confirmed_type = "dict"
    /\ event.op # "persist_raised"
    /\ event.op = "persist" =>
          /\ Get(confirmed, event.payload) = event.zone
          /\ event.write = "ok" => inv_file = json_dump(confirmed)

\* the same for the runs in which json.load failed or returned an object, or found no file
UsableMapUnlessOtherJSON == confirmed_type = "dict" => C14_StartsWithUsableMap

\* the (payload, quad) reads of the frame: those of the attempts that were made and in
\* which no call failed, a candidate in which nothing decodes left aside
ReadsInFrame(scan, Z) ==
    LET made == {k \in 1..Len(scan) :
                    scan[k].fail = "none" /\ attempt_runs(scan[k], Z, FrameW, FrameH)}
    IN  {r \in UNION {SetOf(scan[k].reads) : k \in made} : r.payload # ""}

\* C15: the detections detect_qr_robust returns have pairwise distinct payloads, the
\* payloads are those read in the frame, and the quad kept for a payload is one of its
\* reads with the largest area among all reads of that payload.
C15_OneDetectionPerPayload ==
    event.op = "detected" =>
       LET R == ReadsInFrame(seen, zones_opt)
       IN  /\ \A i, j \in 1..Len(detections) :
                 detections[i].payload = detections[j].payload => i = j
           /\ {detections[k].payload : k \in 1..Len(detections)} = {r.payload : r \in R}
           /\ \A k \in 1..Len(detections) :
                 \E r \in R :
                    /\ r.payload = detections[k].payload
                    /\ r.quad = detections[k].points
                    /\ \A q \in R : q.payload = r.payload => q.quad.area <= r.quad.area

\* p1 is read with the big quad in pass 1 and with the small quad in pass 2, p2 is read
\* in between, in pass 1; the output holds p1 once, with the big quad, and p2
C15_Witness ==
    /\ event.op = "detected"
    /\ Len(seen) = 3
    /\ seen[1] = Attempt(1, 0, "none", <<Read("p1", BigQuad, NoScore)>>)
    /\ seen[2] = Attempt(1, 0, "none", <<Read("p2", BigQuad, NoScore)>>)
    /\ seen[3] = Attempt(2, 1, "none", <<Read("p1", SmallQuad, NoScore)>>)
    /\ Len(detections) = 2
    /\ detections[1].payload = "p1" /\ detections[1].points = BigQuad
    /\ detections[2].payload = "p2"

\* fewer than 3 distinct points, or a longest edge at or below the threshold of _warp_patch
Degenerate(q) == q.corners < 3 \/ q.edge <= MinEdge

\* C16: no detection detect_qr_robust returns has a degenerate quad, whichever pass read it.
C16_NoDegenerateDetection ==
    \A k \in 1..Len(detections) : ~Degenerate(detections[k].points)

\* the same for the reads of pass 3 alone
NoDegenerateDetectionFromPass3 ==
    (\A k \in 1..Len(seen) : seen[k].pass = 3) => C16_NoDegenerateDetection

\* C17: whichever attempt of a pass fails, in preprocessing or in detection and decoding,
\* detect_qr_robust returns, its output holds the payloads read by the attempts that did
\* not fail, and it is the empty list when these read nothing.
C17_FailedAttemptIsSkipped ==
    seen # NoScan =>
       /\ event.op = "detected"
       /\ {detections[k].payload : k \in 1..Len(detections)}
             = {r.payload : r \in ReadsInFrame(seen, zones_opt)}
       /\ ReadsInFrame(seen, zones_opt) = {} => detections = <<>>

\* the same for the failures of the detector calls and of the warp
FailedDetectorCallIsSkipped ==
    (\A k \in 1..Len(seen) : seen[k].fail # "preprocess") => C17_FailedAttemptIsSkipped

\* the last n entries of the sequence o, all of o when it is shorter
LastN(o, n) == IF Len(o) > n THEN SubSeq(o, Len(o) - n + 1, Len(o)) ELSE o

\* C18: the history of every payload is a bounded FIFO: it never holds more than N
\* entries (N = required_consistency when positive, 1 otherwise) and it is exactly the
\* last N zones observed for the payload, in arrival order; so an append to a full
\* history drops the oldest entry and nothing else.
C18_HistoryIsBoundedFIFO ==
    \A p \in Payloads :
        /\ Len(history[p]) <= N
        /\ history[p] = LastN(obs[p], N)

\* N = 2 and a third observation arrived: the first one is gone, the other two are kept
\* in the order they were made
C18_Witness ==
    /\ required = 2
    /\ event.op \in {"observe", "persist"}
    /\ obs[event.payload] = <<"A", "B", NONE>>
    /\ history[event.payload] = <<"B", NONE>>

\* the zone appended by a step that observes payload p
Observed(p) == obs'[p][Len(obs'[p])]

\* C19: with N = 1 (required_consistency 1, or 0 which is coerced to 1) a step that
\* observes a payload in a zone calls persist_mapping for that payload and zone in the
\* same step of the same cycle and leaves the payload confirmed in that zone; a step
\* that observes a payload outside every zone (None) confirms nothing.
C19_SingleObservationConfirms ==
    [][\A p \in Payloads :
          (N = 1 /\ pc = "observe" /\ Len(obs'[p]) = Len(obs[p]) + 1) =>
             IF Observed(p) # NONE
             THEN /\ event'.op = "persist"
                  /\ event'.payload = p
                  /\ event'.zone = Observed(p)
                  /\ Get(confirmed', p) = Observed(p)
                  /\ cycle_idx' = cycle_idx
             ELSE /\ event'.op = "observe"
                  /\ confirmed' = confirmed]_vars

\* required_consistency = 0: a tag seen outside every zone and then in zone A is
\* confirmed in A by that second observation
C19_Witness ==
    /\ required = 0
    /\ event.op = "persist"
    /\ event.zone = "A"
    /\ obs[event.payload] = <<NONE, "A">>
    /\ Get(confirmed, event.payload) = "A"

\* the steps that end a cycle: the publish of its snapshot, or one of its aborts
CycleEndEvents == {"published"} \cup FailureEvents

\* position of a step of the loop body in the order of a cycle
StageOf(at) ==
    CASE at = "capture" -> 1
      [] at = "detect" -> 2
      [] at = "observe" -> 3
      [] at = "render" -> 4
      [] at = "lock" -> 5
      [] at = "sleep" -> 6
      [] OTHER -> 7

\* the snapshot of the running cycle has not been published
NotPublishedYet == \A f \in DOMAIN STATE_cycle : STATE_cycle[f] < now

\* C20: the main thread runs one cycle at a time and the steps of a cycle in the order
\* capture, detect, history update with confirmation and persist, render, publish.
\* A step moves forward in that order (an abort goes to the sleep, a frame without tags
\* goes from detect to render); the inventory changes only in the history step and
\* before the snapshot of the same cycle is published; a snapshot is published only
\* after the frame of the cycle was scanned and every detection observed; the sleep
\* follows the publish or an abort; and a capture starts only from the start of the
\* loop, at first or right after the sleep that followed the previous cycle.
C20_CyclesInOrder ==
    [][/\ pc' # pc =>
             \/ StageOf(pc') = StageOf(pc) + 1
             \/ pc' = "sleep"
             \/ pc = "detect" /\ pc' = "render" /\ detections' = <<>>
             \/ pc = "sleep" /\ pc' = "capture"
       /\ (confirmed' # confirmed \/ inv_file' # inv_file \/ event'.op = "persist") =>
             /\ pc = "observe"
             /\ seen # NoScan
             /\ NotPublishedYet
             /\ cycle_idx' = cycle_idx
       /\ STATE_cycle' # STATE_cycle =>
             /\ pc = "lock"
             /\ seen # NoScan
             /\ det_i = Len(detections) + 1
             /\ NotPublishedYet
             /\ \A f \in DOMAIN STATE_cycle : STATE_cycle'[f] = now
             /\ event'.op = "published"
             /\ pc' = "sleep"
       /\ pc' = "sleep" /\ pc # "sleep" => event'.op \in CycleEndEvents
       /\ pc = "sleep" => /\ event.op \in CycleEndEvents
                          /\ event'.op \in {"slept", "died"}
                          /\ cycle_idx' = cycle_idx
       /\ cycle_idx' # cycle_idx =>
             /\ cycle_idx' = cycle_idx + 1
             /\ pc = "capture"
             /\ IF cycle_idx = 0 THEN event = NoEvent ELSE event.op = "slept"]_vars

\* the second cycle has captured its frame: the first cycle confirmed a tag, published
\* its snapshot afterwards and slept
C20_Witness ==
    /\ cycle_idx = 2
    /\ pc = "detect"
    /\ event.op = "got_frame"
    /\ confirmed # EmptyMap
    /\ \A f \in DOMAIN STATE_cycle : STATE_cycle[f] = 1

\* the positions of a request thread inside its "with STATE_LOCK:" block
InReaderBlock == {CopyOrder[k] : k \in 1..Len(CopyOrder)} \cup {"unlock"}

\* the positions of the main thread inside its "with STATE_LOCK:" block
InWorkerBlock == {PublishOrder[k] : k \in 1..Len(PublishOrder)} \cup {"unlock"}

Located(scan, Z) ==
    UNION {SetOf(scan[k].cands) :
              k \in {j \in 1..Len(scan) : /\ scan[j].pass \in {1, 2}
                                          /\ scan[j].fail = "none"
                                          /\ attempt_runs(scan[j], Z, FrameW, FrameH)}}

\* the candidates pass 3 of the scan worked on
Tried(scan) == {k \in 1..Len(scan) : scan[k].pass = 3}
TriedQuads(scan) == {scan[k].reads[1].quad : k \in Tried(scan)}

\* the number of buckets of a set of quads
Buckets(Q) == {bucket_of(q) : q \in Q}

\* the candidates of pass 3 are located quads, one per bucket and the largest of its
\* bucket; a located quad that is left out is not larger than any candidate unless a
\* candidate of its own bucket covers it; nothing is left out while there is room
LargestKept(scan, Z, cap) ==
    /\ TriedQuads(scan) \subseteq Located(scan, Z)
    /\ Cardinality(TriedQuads(scan)) = Cardinality(Tried(scan))
    /\ \A t \in TriedQuads(scan), d \in Located(scan, Z) :
          \/ d.area <= t.area
          \/ \E u \in TriedQuads(scan) : bucket_of(u) = bucket_of(d) /\ u.area >= d.area
    /\ cap >= 0 =>
          Cardinality(Tried(scan)) =
             IF cap < Cardinality(Buckets(Located(scan, Z)))
             THEN cap ELSE Cardinality(Buckets(Located(scan, Z)))

\* C22: pass 3 works on at most max_candidates candidates (on none when the configured
\* value is below 1), for every configured value and every number of quads located by
\* passes 1 and 2, and the candidates it works on are those of the largest area.
C22_CandidatesAreCapped ==
    seen # NoScan =>
       /\ Cardinality(Tried(seen)) <= (IF max_candidates < 0 THEN 0 ELSE max_candidates)
       /\ LargestKept(seen, zones_opt, max_candidates)

\* the same for a max_candidates that is not negative
CandidatesAreCappedUnlessNegative == max_candidates >= 0 => C22_CandidatesAreCapped

\* three buckets located and a cap of two
CappedScan ==
    /\ max_candidates = 2
    /\ seen # NoScan
    /\ Cardinality(Buckets(Located(seen, zones_opt))) = 3
    /\ Cardinality(Tried(seen)) = 2

\* the scan with the score of every read removed
WithoutScores(scan) ==
    [k \in 1..Len(scan) |->
        [scan[k] EXCEPT !.reads = [j \in 1..Len(scan[k].reads) |->
                                      [scan[k].reads[j] EXCEPT !.score = NoScore]]]]

\* what a detection reports apart from its score
Reported(dets) ==
    [k \in 1..Len(dets) |-> [payload |-> dets[k].payload, points |-> dets[k].points,
                             centroid |-> dets[k].centroid, zone |-> dets[k].zone]]

\* the detections of the same reads when no read has a score
ScorelessDetections == detect_qr_robust(WithoutScores(seen), zones_opt, FrameW, FrameH).detections

\* C23: the score gates nothing.  The payloads, quads and zones of the detections of a
\* frame are those of the same reads without any score, so two scans that differ in
\* scores only report the same; and the zone appended to the history of a payload, and
\* the zone confirmed for it, is the zone of that score-free detection.
C23_ScoreNeverGates ==
    seen # NoScan =>
       /\ Reported(detections) = Reported(ScorelessDetections)
       /\ event.op \in {"observe", "persist"} =>
             \E k \in 1..Len(ScorelessDetections) :
                /\ ScorelessDetections[k].payload = event.payload
                /\ obs[event.payload][Len(obs[event.payload])] = ScorelessDetections[k].zone
                /\ event.op = "persist" => event.zone = ScorelessDetections[k].zone
                /\ event.op = "observe" =>
                      ~LastObservationsAre(event.payload, ScorelessDetections[k].zone, N)

\* tag p1 is read twice in the frame of the second cycle, with a high score on the small
\* quad and none on the large one: the large one is reported, and confirms zone B
C23_Witness ==
    /\ cycle_idx = 2
    /\ event.op = "persist" /\ event.payload = "p1" /\ event.zone = "B"
    /\ \E i, j \in 1..Len(seen) :
          /\ seen[i].reads = <<Read("p1", SmallQuad, 90)>>
          /\ seen[j].reads = <<Read("p1", BigQuad, NoScore)>>
    /\ detections[1].points = BigQuad
    /\ detections[1].score = NoScore

\* the PNG of the frame captured in cycle c with nothing drawn on it
RawPNG(c) == encode_png(captured_frame(c), TRUE)

\* C24: draw_overlay leaves the frame it is given as it was captured: after rendering,
\* the local frame, the raw PNG of the cycle and the raw PNG that gets published show
\* the captured frame without zones and marks, whatever the detections and the zones;
\* and draw_overlay returns an image for every input, which for no detections and no
\* zones shows the captured frame.
C24_RenderKeepsFrame ==
    /\ pc = "lock" =>
          /\ frame = captured_frame(now)
          /\ out.frame_png = RawPNG(now)
          /\ out.overlay_png.kind = "png"
          /\ out.overlay_png.marks = detections
          /\ (detections = <<>> /\ zones_opt = <<>>) => out.overlay_png = RawPNG(now)
    /\ STATE_cycle.frame_png > 0 => STATE_dict.frame_png = RawPNG(STATE_cycle.frame_png)

\* a frame with a tag and two zones was rendered and published: the overlay shows them,
\* the raw image does not
C24_Witness ==
    /\ event.op = "published"
    /\ Len(STATE_dict.overlay_png.marks) = 1
    /\ Len(STATE_dict.overlay_png.zones) = 2
    /\ STATE_dict.frame_png = RawPNG(now)
    /\ STATE_dict.frame_png # STATE_dict.overlay_png

\* the payloads read in the frame of the running cycle
PayloadsRead(scan) ==
    UNION {{scan[k].reads[j].payload : j \in 1..Len(scan[k].reads)} : k \in 1..Len(scan)}

\* the steps that end an iteration without a detection loop
SkipEvents == {"bad_options", "capture_raised", "got_none", "detect_raised", "render_raised"}

\* C25: the history of a payload changes only by an append in a cycle whose frame showed
\* the payload.  A cycle without the payload, a failed acquisition and an aborted cycle
\* leave every history as it is, neither appended to nor reset, so the N equal
\* observations that confirm a zone may lie in cycles that are not consecutive.
C25_HistoryChangesOnlyWhenDetected ==
    [][/\ \A p \in Payloads :
             history'[p] # history[p] =>
                /\ pc = "observe"
                /\ detections[det_i].payload = p
                /\ p \in PayloadsRead(seen)
                /\ cycle_idx' = cycle_idx
                /\ Len(history'[p]) >= Len(history[p])
                /\ history'[p][Len(history'[p])] = detections[det_i].zone
       /\ event'.op \in SkipEvents => history' = history
       /\ (pc = "detect" /\ detections' = <<>>) => history' = history]_vars

\* N = 2: tag p1 was seen in zone B in a cycle that was published, then a cycle ended
\* without a snapshot and without the tag, and the next sighting in B confirms
C25_Witness ==
    /\ required = 2
    /\ event.op = "persist" /\ event.payload = "p1"
    /\ obs["p1"] = <<"B", "B">>
    /\ cycle_idx >= 3
    /\ STATE_cycle.ts = cycle_idx - 2
    /\ Len(STATE_dict.detections) = 1
    /\ detected_in["p1"] = 2

\* C26: a cycle appends at most one observation per payload, the detections of a cycle
\* holding each payload once; so a payload has never more observations than cycles in
\* which it was detected, and it is confirmed in a zone, or its confirmed zone replaced,
\* only once it has been detected in N cycles since startup.
C26_ConfirmationNeedsNCycles ==
    /\ [](\A p \in Payloads :
            /\ Len(obs[p]) <= detected_in[p]
            /\ detected_in[p] <= cycle_idx)
    /\ [](\A i, j \in 1..Len(detections) : detections[i].payload = detections[j].payload => i = j)
    /\ [](event.op = "persist" => detected_in[event.payload] >= N)
    /\ [][\A p \in Payloads : Get(confirmed', p) # Get(confirmed, p) => detected_in[p] >= N]_vars

\* N = 2: tag p1 is read three times in the frame of the first cycle and observed once;
\* the second cycle, which reads it again, confirms it
C26_Witness ==
    /\ required = 2
    /\ cycle_idx = 2
    /\ event.op = "persist" /\ event.payload = "p1"
    /\ detected_in["p1"] = 2
    /\ Len(obs["p1"]) = 2
    /\ Len(seen) = 3

\* C27: every value the main loop writes into confirmed for a payload is the zone that
\* centroid_to_zone returned for a detection of that payload in the running cycle, a key
\* of the configured zones and never None, and persist_mapping is never called with
\* the zone None.
ZoneKeys == {zones_opt[k][1] : k \in 1..Len(zones_opt)}

C27_ConfirmedIsAReturnedZone ==
    /\ [](event.op \in {"persist", "persist_raised"} => event.zone # NONE)
    /\ [](last_call.op = "persist" => last_call.zone \in ZoneKeys)
    /\ [][\A p \in Payloads :
            Get(confirmed', p) # Get(confirmed, p) =>
                /\ Get(confirmed', p) # NONE
                /\ Get(confirmed', p) \in ZoneKeys
                /\ \E k \in 1..Len(detections) :
                      /\ detections[k].payload = p
                      /\ centroid_to_zone(detections[k].centroid[1], detections[k].centroid[2],
                                          zones_opt) = Get(confirmed', p)]_vars

\* a mapping is replaced by the zone of a later sighting, after a sighting outside
\* every zone
C27_Witness ==
    /\ event.op = "persist"
    /\ event.prev # NONE
    /\ event.zone # event.prev
    /\ Get(confirmed, event.payload) = event.zone
    /\ \E k \in 1..Len(obs[event.payload]) : obs[event.payload][k] = NONE

\* a cycle that raised before the publish block left the five STATE fields as they were,
\* and the five fields of the snapshot come from the publish block of one cycle
AbortedCycleKeepsSTATE ==
    /\ [][event'.op \in FailureEvents => STATE_dict' = STATE_dict]_vars
    /\ [](\A f, g \in DOMAIN STATE_cycle : STATE_cycle[f] = STATE_cycle[g])
    /\ [](STATE_dict # InitSTATE => STATE_cycle["ts"] \in 1..now)

\* a cycle stored a mapping in confirmed and in the inventory file, and ended in the
\* except clause before the publish block
PersistedThenAborted ==
    /\ event.op = "render_raised"
    /\ last_call.op = "persist"
    /\ last_call.write = "ok"
    /\ Get(confirmed, last_call.payload) = last_call.zone
    /\ Get(inv_file.val, last_call.payload) = last_call.zone
    /\ STATE_cycle["detections"] < now

\* C28: a cycle that raises before the publish block leaves all five STATE fields as
\* they were, so the published snapshot is that of a cycle that ran to completion; and
\* every mapping persisted in cycle c is followed by the publication of the detections
\* of cycle c.
C28_PersistedIsPublished ==
    /\ AbortedCycleKeepsSTATE
    /\ [][event.op = "persist" /\ event.write = "ok" => event'.op \notin FailureEvents]_vars
    /\ \A c \in 1..MaxCycles :
          (event.op = "persist" /\ event.write = "ok" /\ now = c)
              ~> (STATE_cycle["detections"] = c)

\* C29: an object published into STATE is never written again: the content of STATE
\* changes only by the assignments of the publish block, what a request has copied under
\* the lock stays as it was copied whatever the main thread does before the response
\* is sent, and the response is made of the values of one publish.
C29_PublishedObjectsAreNotMutated ==
    /\ [][STATE_dict' # STATE_dict => STATE_LOCK = WORKER /\ event'.op \in {"assigned", "published"}]_vars
    /\ [][\A r \in Readers :
            rpc[r] \in {"unlock", "respond"} /\ rpc'[r] \in {"unlock", "respond"} =>
               rcopy'[r] = rcopy[r]]_vars
    /\ [][\A r \in Readers : \A k \in 1..Len(CopyOrder) :
            rpc[r] = CopyOrder[k] /\ rpc'[r] # rpc[r] =>
               /\ rcopy'[r][CopyOrder[k]] = STATE_dict[CopyOrder[k]]
               /\ \A j \in 1..(k - 1) : rcopy'[r][CopyOrder[j]] = rcopy[r][CopyOrder[j]]]_vars
    /\ [](\A r \in Readers :
            rpc[r] = "respond" =>
               /\ FromOnePublish(rcopy[r], rcopy_cycle[r])
               /\ Response(r, "/detections.json").detections = rcopy[r].detections
               /\ Response(r, "/detections.json").frame_info = rcopy[r].last_frame_info
               /\ Response(r, "/detections.json").ts = rcopy_cycle[r].ts)

\* a request copied the publish of a cycle that saw the tag; before it sends its
\* response the main thread has built and published the empty detections of the next cycle
C29_Witness ==
    \E r \in Readers :
       /\ rpc[r] = "respond"
       /\ rcopy[r].detections # <<>>
       /\ STATE_cycle.detections = rcopy_cycle[r].detections + 1
       /\ STATE_dict.detections = <<>>
       /\ STATE_LOCK = FREE

\* an updater iteration has run to its end
IterationEnds == updater_pc = "fetching" /\ updater_pc' = "sleeping"

TextKept == state'.last_text = state.last_text /\ state'.last_seen_ts = state.last_seen_ts

\* last_text and last_seen_ts change only in an iteration whose frame decodes to a
\* non-empty text, and then hold that text and the time of the iteration
TextChangesOnlyOnDecodedQR ==
    [][~TextKept =>
          /\ IterationEnds
          /\ iteration'.decoded = "text"
          /\ iteration'.text # EmptyStr
          /\ state'.last_text = iteration'.text
          /\ state'.last_seen_ts = clock']_vars

\* an iteration whose fetch fails or whose frame holds no QR text leaves both unchanged
FailedFetchOrNoQRKeepsText ==
    [][IterationEnds /\ (iteration'.fetch = "raise" \/ iteration'.decoded \in {"none", "raise"}
                         \/ iteration'.text = EmptyStr)
          => TextKept]_vars

\* once an annotated frame is there it stays, and /snapshot.jpg answers 200 with it
SnapshotStaysReady ==
    [][state.last_annotated_jpeg # EmptyBytes =>
          /\ state'.last_annotated_jpeg # EmptyBytes
          /\ (reply'.seq # reply.seq /\ reply'.handler = "snapshot" =>
                 reply'.status = 200 /\ reply'.body = state.last_annotated_jpeg)]_vars

\* an iteration decoded a QR text and failed in annotate: /status has the new text, no
\* annotated frame shows it
AnnotationFailedAfterDecode ==
    /\ iteration.annotated = "raise"
    /\ iteration.decoded = "text"
    /\ state.last_text = iteration.text
    /\ state.last_seen_ts = clock
    /\ state.last_annotated_jpeg = EmptyBytes
    /\ reply.handler = "status" /\ reply.last_text = iteration.text

\* C30: state.last_text and state.last_seen_ts change only in an updater iteration whose
\* frame decodes to a non-empty QR text; an iteration whose fetch fails, whose frame
\* holds no QR code or whose annotation fails leaves both unchanged; and once
\* last_annotated_jpeg is non-empty handle_snapshot never answers 503 again.
C30_TextFollowsDecodedQR ==
    /\ TextChangesOnlyOnDecodedQR
    /\ FailedFetchOrNoQRKeepsText
    /\ [][IterationEnds /\ iteration'.annotated = "raise" => TextKept]_vars
    /\ SnapshotStaysReady

====
